# Aneka Panduan: a verification project

This directory holds TLA+ models of the Aneka Panduan news app (`src/lib`, Flutter and
Dart), the TLC configurations that check them, and TLAPS proofs. It is read beside the
code: every module names the lines it stands for in `PROJECT.json` ("map").

## 1. The system

The app is a client. It keeps little of its own and talks to Firebase Authentication, to
a PHP backend over HTTP (`utils/networking/neews_networking.dart`), to Google Mobile Ads,
to Branch (deep links) and to Firebase Messaging. Dart runs it on one event loop: nothing
is preempted, but every `await` lets any other handler, timer or callback run, and every
hazard below comes from what changes at an `await`.

| Component | State | Operations | Hard because |
|---|---|---|---|
| Authentication flow (`screens/authentication_screens`, `splash_screen.dart`, `neews_authentication_service.dart`) | the Navigator's stack, `isLoading` of each screen, Firebase's session and its cached `emailVerified`, the backend's user row | sign up, log in, Google, reset, verify, resend, back, splash | handlers interleave at every await and outlive their screens; two services must agree; crashes |
| Logout and login sheet (`app_drawer.dart`, `account_screen.dart`, `app_bottomsheets.dart`) | the sheet, the session | log out, open the login sheet | the handler checks one widget's `mounted` and uses another's context |
| Interests and preferences (`select_intrest_screen.dart`, `category_controller.dart`, `prefences_controller.dart`, `manage_user_prefences_screen.dart`, `add_prefences_screen.dart`) | the selection, the list of preferences, the backend's interests | select, choose (a loop of calls), add, remove | navigation inside an upload loop; a list that several fetches overwrite; a button that reads it when tapped |
| Article reader (`article_controller.dart`, `article_screen.dart`) | one global controller: the article, `isLiked`, `isSaved`, speech, font size | open, like, save, speak, view count | a global controller shared by stacked screens; responses out of order; optimistic updates |
| Ads (`app_ad_controller.dart`, `article_ad_controller.dart`, `category_news_ad_controller.dart`) | loaded flags, the ad objects | load, callbacks, dispose | callbacks after dispose; flags that outlive the ad |
| Home feed (`home_screen.dart`, `home_screen_category_controller.dart`) | the chosen category, its articles; the news of each section | choose a category, build | responses out of order; every build fetches again; a flag that hides a section for good |
| Settings (`shared_prefs.dart`, `theme_manager.dart`, `change_language_screen.dart`) | preferences in memory, on disk and in the backend's profile | change, restart | written behind the cache; three copies of the language |
| Connectivity and deep links (`main_screen.dart`) | the no-connection sheet, subscriptions | events, retry, dispose | events that push and pop without knowing what is on top; subscriptions that outlive their screen |
| Videos (`video_screen.dart`, `slide_video_player.dart`, `video_article_controller.dart`) | one global controller: `isLiked`, `isSaved` | open, swipe, like, save | slides and stacked screens over one controller; responses out of order |
| Push (`firebase_api.dart`), search, saved articles | small | | |

Components interact in three ways: by the Navigator (every screen pushes, replaces and
pops the same stack, whatever is on top), by the session (`FirebaseAuth.instance.currentUser`
is read again after each await), and by global GetX controllers that live longer than the
screens that use them.

## 2. Modules

| Module | What it is |
|---|---|
| `ScreenStack` | the Navigator: `push`, `pushReplacement`, `pop`, and the one field (`isLoading`) that handlers change on a screen |
| `Accounts` | the abstract specification: Firebase accounts, backend rows, session, and what each may do |
| `AuthFlow` | the screens, handlers, services, user and operating system; EXTENDS the two above and implements `Accounts` |
| `AdBanners` | the banners of six kinds of screen, the flags in GetX controllers, GetX's registry |
| `ArticleReader` | stacked articles over one controller, likes, saves, fetches and push messages |
| `Voice` | the abstract specification of reading aloud: articles that are there, a voice that is silent, on, or ending |
| `ArticleSpeech` | the speaker icon, the command queue, the platform's speech engine; implements `Voice` |
| `Preferences` | stacked manage and add screens over one controller, fetches, removals, uploads |
| `Interests` | the interests and the add screen at the level of taps: category objects, the selection, both upload loops, sessions |
| `MainShell` | MainScreen as a listener: the no-connection sheet and its retries, article and video links |
| `HomeFeed` | the articles under the category chips of the home tab |
| `Settings` | the language on the device, on disk, in the profile and in the news of the home tab |
| `VideoReader` | the like and save buttons of slides and video screens over one controller |
| `MCAuthFlow`, `MCAdBanners`, `MCArticleReader`, `MCPreferences`, `MCInterests` | symmetry and bounds for TLC |
| `MCShell` | the sum of `MainShell`, `HomeFeed`, `Settings` and `VideoReader` |
| `AuthFlowProofs` (with `ScreenStack` and `Accounts`), `AdBannersProofs`, `ArticleReaderProofs`, `ArticleSpeechProofs`, `PreferencesProofs`, `InterestsProofs`, `ShellProofs` (`MainShell`, `HomeFeed`, `Settings`, `VideoReader` and `MCShell`), `QueueLemmas` | lemmas and theorems |

Two facts about libraries are used throughout and marked external. *GetX*: `Get.put` returns
the registered instance if there is one, and only `Get.delete` removes it (the app is a
`MaterialApp`, so no route removes it either); `GetxController.update()` always rebuilds its
`GetBuilder`s, an `RxBool` notifies only when its value changes. *FutureBuilder*: a rebuild
with a new future stops listening to the old one, whose code runs on all the same.

### AuthFlow

*Handlers.* A Dart handler runs without interruption between awaits. `call[h]` is such a
handler: `pc` names the await it is suspended at (`"create"`: the request is out) or about
to resume from (`"created"`: the answer is there). One action answers (`FirebaseCreate`),
one resumes (`SignUpCreated`) and runs to the next await or the end. A handler keeps what
its local variables keep: `acct` (the e-mail typed), `uid` and `ver` (what `register` sends).
What it reads again after the await (`currentUser`, `emailVerified`, the top of the stack) is
read from the state at that moment, as the code does.

*Screens.* The Navigator changes at the top only, so a position of `stack` identifies a
screen while it is there. A popped or replaced screen leaves `stack` at once but its State
stays mounted until the exit animation ends. Only handlers suspended on it can tell, so the
model keeps this as `life` of the handler: `"shown"`, `"exiting"` (off the stack, still
mounted), `"gone"` (disposed; action `Dispose`). `if (!mounted) return` is
`MountedAfterAwait`. `pushReplacement` replaces what is visible, which need not be the
screen whose handler calls it.

*Failures.* A Firebase call may fail before or after its effect (`FirebaseCreate` with the
answer lost); `registerUser` may insert the row and then throw; `updateUserVerification` may
be lost. An exception the code does not catch ends the handler without the statements that
follow (`Throw`), and a null check on `currentUser!` is one of them. `Restart` kills the
process between any two steps: Firebase keeps the session, the disk keeps what was written.

*History.* `crossed`, `faulted`, `lateUse` and `threw` are read by no handler; they say which
of the code's own failures has happened, so that a property can be exact about everything else.

*Left out.* Input refused by `validateData` (nothing changes). The verification e-mail
itself: `FollowLink` may happen whenever the account exists. Later events of the splash
screen's subscription, which find the screen unmounted. Tiles drawn before the session ended
and not rebuilt. Firebase answers with `FirebaseAuthException` except in `reload`, the
Google dialog and HTTP calls, which may throw anything.

### AdBanners

A slot of `screen` is a State object: its kind, the controller it uses (`ctl`), whether the
ad unit has been asked for (`info`), its banner (`ad`) and what its builder made of both
(`shows`). `Sets`, `Reads`, `Guarded`, `Frees` and `Deletes` are what the six screens do
differently, read off their code; the rest they do alike, and the four banners of the home
screen or the three of an article are represented by one. `SelectTab` is one action because
the new tab's `initState` (`Get.put`) and the old one's `dispose` (`Get.delete`) run in one
frame, in that order. `AdInfo`, `AdLoaded` and `AdFailed` may come at any time, for screens
that are long gone too. The history variable `tainted` names the AppAdControllers that were
shared past the tabs' `Get.delete`, and `late` a banner created after its screen was left.

### ArticleReader

`call[c]` is a chain of requests: `getArticle` then `getArticleDetails` (`initState` and the
FutureBuilder each start one), a foreground push message's request, or a tap's toggle and the
refetch after it. `ServeFetch` and `ServeToggle` are the moment the backend reads or writes,
`ArticleFetched` ... `Refetched` the moment the answer is applied. Counts of toggles stand for
the like and save state; the parity is what is shown. `shown` keeps which answer the
controller's fields came from. `upset` is history: it is set on a screen when one of the five
things happens that the code does not handle (another article opened over it, an answer about
another article, from another session, or older than the one shown, a call that failed), so that
`SettledShowsServer` says that these are all the ways to a wrong icon.

### ArticleSpeech

`commands` and `events` are the two directions of the platform channel; `engine` is the
platform's. `channel` says whose handlers the platform's callbacks reach: every article
(`article_screen.dart:43`) and every push message (`firebase_api.dart:83`) evaluates
`Get.put(ArticleController())`, and the constructor makes a `FlutterTts` that takes the plug-in's one
callback channel (`PutController`). `Get` registers the first controller only and runs `onInit`, which sets
the handlers, for no other, so from the second on `start`, `done` and `error` reach an instance that has none;
the result of `speak` still goes to its caller (`Reaches`). `overtaken` and `unheard` are history: the last stop was
issued while the effects of a speak were still on their way back; the last speech ended and no handler heard it. `Voice` is the promise behind it: `Voiced` maps an engine that speaks, the commands
before it and the tap that asked to one of three states, and every interleaving of commands and
callbacks is then a step of five abstract operations. It says what a user could hear and no
more: nothing but a tap turns the voice on, and every article that goes sends it to silence.

### Preferences

`net` holds the calls in the order they were sent, and a behaviour either keeps that order
(`inOrder`) or does not. `Fetched` overwrites `list` and, if a FutureBuilder listens, draws its
grid. The grid's length is fixed then, its cards are not: `GridView.builder` builds a card from `list` whenever it
comes into view (`Scroll`), and a place the list no longer has shows an error. Its Remove button reads `list` when it is
tapped, and a deletion carries both what the card shows (the history field `card`) and what is sent (`of`). `Updated` is `update()`, which
rebuilds the manage screens under the visible one too. An upload loop belongs to an add screen
and outlives it (`life`, as in AuthFlow). `missed` is history: what changed the backend without
this screen being told, and `"list"` when its cards may come from an answer that was refused or came out of order. `update()` rebuilds all manage screens in one go, and `Ascending` gives the order of
their new calls. *Assumed of the backend*: it returns preferences in the order they were
added and keeps each once. *Left out*: the few frames in which a popped manage screen is still
mounted and would refetch as well; the frame between an answer and its drawing; and which cards are in view when a
grid is drawn (all are drawn with it, and any may be drawn again at any time). Taps on categories while the loop runs are in `Interests`.

### Interests

A tap puts the *object* of a card on `CategoryController.selectedCategoryList`, and `Category` has no
equality, so a choice (`Choice`) records which list it came from (`on`) and what became of that list
(`seen`). `Fetched` replaces the list of one screen, and with it strands the choices made on it. `loop`
holds the handlers of the Choose buttons: the add screen's is a `for`-`in` over the list object (`own`, once
`resetList` has given the controller another; `length` is what Dart's iterator compares), the interests
screen's an index over whatever list the controller has. `due` is history: what the upload was started with,
neither sent nor untapped. `disturbed`, `crossed` and `foreign` are history too, as is `past` of a chosen
category: the user changed since it was tapped. `SignIn` and `LogOut` happen at any time, whatever is visible and
whoever is signed in: they are the moments at which a call of `loginUser`, `googleLogin` or the log-out button,
suspended since long before, takes effect. The handler then goes on by itself (`Arrive`): it pushes or replaces
whatever is visible, over an add or interests screen too. *Left out*: which handler is behind an `Arrive` and whether its
own State is still mounted (`AuthFlow` has that; here it may always come), and the add screen's check that somebody is
signed in, which happens at the tile that opens it (`OpenAdd`).

### MainShell, HomeFeed, Settings, VideoReader

These four keep no state in common and are checked side by side in `MCShell`: a behaviour picks one of
them and the others stay put. The sum says as much as the product, since no invariant relates two of
them, at the cost of one.

`MainShell`: every MainScreen on the Navigator subscribes to the connection (until `dispose`) and to Branch
(forever), so one event puts one route per listener on the Navigator (`Listening`), in the order in which they
subscribed. `Retried` pops whatever is on top. `Handler` keeps, for a suspended handler, which MainScreen
it belongs to, whether that is still mounted, and which states the connection had since it asked
(`checkConnectivity` may answer any of them). A route that is not a sheet, an article or a MainScreen is
`"other"`. `excuse` is history: retries overlapped, a sheet was closed by hand, or nobody listened.

`HomeFeed`: `feedCalls` are the fetches under way, in the order they were sent, answered in any order.
`late`, `overtaken` and `answered` are history.

`Settings`: the section of trending news stands for the four of its kind. Each build asks again, and the
FutureBuilder hears the newest call only (`"heard"`); all of them write the State's list. `Build` is also
what a change of theme or language does to the home tab, which may lie beneath the settings screen.
`updates` are the calls to the profile; the backend may serve them in any order, and a guest's call throws
before it is sent. `Die` reads back what the disk has.

`VideoReader`: a slide or a screen asks for its info when it is built, a toggle asks again when it was
answered, and `InfoArrives` fills the one controller whichever video it is about. `marks` and `backend` hold
one Boolean per button. `settled` and `late` are history: they name the ways in which the marks may be
those of another video, session or moment (asked for by another video, before a sign-in, overtaken, or
never asked for again because a call was lost).

## 3. What the runs show

A passing run is over every behaviour of the instance. Bounds are named constants; each is large
enough for the interesting case to happen, which the violated mutants in `PROJECT.json` witness
(one per property and run).

| Run | Instance | Shows |
|---|---|---|
| `auth_restart` | one account, one handler at a time, depth 3, every page and button, crashes | types, what the device believes is true, rows are backed by accounts, no account is silently left without a row, only verified addresses are admitted, only two resumptions touch something disposed, `AuthFlow` implements `Accounts` |
| `auth_crossing` | two accounts, two handlers, sign-up, login and Google | sessions that change under a suspended handler: a row under the wrong uid needs exactly that |
| `auth_live` | one account, two handlers, sign-up, login, reset | a visible loader has a handler, loaders end, accounts get their row |
| `banners` | all kinds of screen, two State objects alive at once, two AppAdControllers, depth 2 | which loaded banners stay hidden, which builders fail, which banners leak |
| `banner_null`, `banner_flag` | home and article; home, video and search | violated: see the findings |
| `reader_races` | two articles, two screens, three chains, two taps, every call succeeds | the visible article agrees with the backend unless one of the named races hit it |
| `reader_live` | one article, one screen, two chains, one tap, one rebuild, both sessions, every outcome | the same with failures and session changes; the shimmer ends |
| `speech` | three articles, push messages, queues of four (106,106 states) | `ArticleSpeech` implements `Voice`; the voice ends with the last article; when the icon may lie |
| `preferences` | two categories, depth 3, four calls in order or three in any order, two taps, one failure (1,450,837 states) | Remove deletes what its card shows when the network keeps the order of calls, and in any order the grid, drawn or scrolled, is the backend's |
| `interests` | two categories, two accounts, one upload at a time, depth 3, two screens with cards, two choices (1,231,744 states) | a loop sends what it was started with and what is still chosen; the add screen files choices in the session they were made in unless the user changed after it was opened, and shows what it will send |
| `shell` | `MainShell`: six routes, two handlers; `HomeFeed`: three chips, three fetches; `Settings`: two languages, four fetches, three updates; `VideoReader`: two videos, one button, three calls | Try again never closes the last screen, a lost connection is on display, only article links use a dead context, the articles are of the chip, the news in the language, the profile follows the device, the marks are the visible video's; each with the exceptions its comment names |

*Why these bounds are enough.* The races are between two actors over one shared thing: two
handlers, two screens, two answers, two controllers. A third adds a witness but no new kind of
step (and the theorems of section 4 hold for any number of chips, languages, calls, videos, routes and handlers), except where a slot is used up by the scenario itself: an ad controller that is deleted while
two others are alive needs three State objects in sequence, not at once, and slots are reused; a tap
needs a third chain beside the two an opened article starts. Depth 3 is a screen, one over it, and
one over that, which `pushReplacement` from a screen that is not visible needs.

*Deadlock* is checked everywhere but in `auth_crossing` and `auth_live`, whose
instances give the user few pages to open: the app comes to rest where only the user could go on.

*Symmetry* is over accounts, handlers, State slots, chains, articles, categories, languages and videos, which no
definition compares except for equality; never in a run with a liveness property.

*Fairness.* `AuthFlow` and `ArticleReader`: a request is answered or times out (`Service`), and the
event loop resumes a suspended handler (`Resume`). `ArticleSpeech`: exit transitions end, the platform
takes commands, the event loop its events. Nothing is assumed of the user, of links in e-mails, of
crashes, or of the speech engine. `reader_live` bounds the rebuilds: without the bound the shimmer
could stay, as every build starts over (a hazard listed).

### Findings

- `banner_null`: the second article opened builds with the loaded flag of the first one's banner, which
  `ArticleAdController` keeps, and dereferences its own banner while it is still null
  (`article_screen.dart:251-255`).
- `banner_flag`: a video screen's banner sets the flag declared under "Search Screen Ads"
  (`video_screen.dart:65`, `app_ad_controller.dart:21`).

Passing runs carry more that a reader of the code should know, in the exceptions of their properties:
`RowMatchesAccount` (a row filed under another account's uid), `NoSilentOrphan` (an account without a
row after a screen was left), `DisposedUseOnlyWhereUnguarded`, `SettledShowsServer`, `GoneBannersFreed`.
`IconMatchesVoice` names two ways to a speaker icon that lies: a stop that overtakes a speak, and, with nothing
overtaken at all, a second article or a push message, after which the end of a speech reaches a discarded controller
and the icon goes on speaking until it is tapped. `UploadsOwn` excepts a user who changed after the add screen was opened,
whose earlier choices are filed under the new account, and is about the add screen only: the interests screen
never drops an earlier session's choices. `ShownPreferencesTrue` excepts a list that a refused or out-of-order
answer replaced: the grid is then not the backend's when its cards are scrolled into view. `RemoveHitsCard` without its hypothesis `inOrder` fails in eight steps: the
controller's own first fetch comes back after a removal, shortens the list under the drawn grid, and the
next tap on the card that is gone deletes the one that moved to its index. The same holds for
`NavigatorKeepsAScreen` (Try again tapped twice pops MainScreen too, and the app is left without a route),
`LateUseOnlyByLinks` (an article link after a logout by replacement reaches a MainScreen that is gone),
`AddShowsChoices` (a category chosen before the second answer is uploaded and no longer ticked), `FeedMatchesChip`,
`ProfileFollowsDevice` and `VideoMarksTrue`, each by way of the exception that its comment states.

## 4. What is proved

For every value of the constants that satisfies the named assumptions, TLAPS proves what follows: every safety
property of every passing run, and that the two detailed models implement their abstract ones. The
assumptions (`AccountsAssumption`, `ScreenStackAssumption`, `AuthFlowAssumption`, `ScreensAssumption`,
`ReaderAssumption`, `SpeechAssumption`, `PreferencesAssumption`, `InterestsAssumption`, `FeedAssumption`,
`SettingsAssumption`, `ShellAssumption`, `VideoAssumption`) say no more than that bounds are numbers, that the
first chip is a chip, that sessions, orders and outcomes are of the kinds the models know, and that `Nobody`,
`Nothing`, `NoArticle`, `NoCategory` and the like are no user, language, article or category. `ReaderAssumption` also
says that there are finitely many slots for chains of requests: the count of toggles under way is a number only then.

### Authentication flow

- `AccountsBacked`: in the abstract specification every row is of an account that exists, and is marked
  verified only if Firebase verified it.
- `TypeCorrect`, `BeliefsStayTrue`: `AuthFlow`'s types and beliefs. The inductive invariant is
  `AuthInv == TypeOK /\ BeliefsTrue`. Neither half is inductive alone: a step that files a row or marks it
  is type-correct only for a handler that names an account, which `HandlersAddressed` (in `TypeOK`) says; a
  belief survives `Restart` or a session change only because the handlers suspended across it hold true
  beliefs of their own.
- `FlowImplementsAccounts`: every step of `AuthFlow` is a step of `Accounts` or leaves `fb`, `rows` and
  `session` alone. It needs `AuthInv` where a handler writes what it learned before its await.
- `FlowRowsBacked`: the abstract invariant, transported along that refinement.
- `RowsMatchAccounts`: a row is filed under its own account unless the session was crossed. `CrossInv` adds what a handler
  carries across an await: until the session is crossed, the account that was just created is the one signed in,
  and the uid that `register` sends is that account's (`Straight`).
- `NoOrphanIsSilent`: inductive over `AuthInv`. A handler that carries an account either takes it one await
  further or notes the failure in `faulted`.
- `DisposedUseUnguarded`: only `googled` and `loggedOut` write `lateUse` with anything but what it had.
- `SpinnersHaveHandlers`: not inductive, since a handler that ends could have been the last of a loader. `SpinInv` adds
  that the handlers which end without stopping a loader (reload, resend, mark) run on the verification
  screen, which has none.
- `VerifiedOnlyAdmitted`, an action property: a step that enters `Main` from the splash screen or from a login
  finds a verified session. `SplashInv` adds that the splash screen is alone and no handler has begun, so that no
  other action can put `Main` over it; for a login it is `AuthInv`'s belief that the cached flag is true.

### Reader and voice

- `SpeechTypeCorrect`, `VoiceEndsWithArticles`: `NoOrphanVoice` is inductive with the types; the last
  `Dispose` appends the stop, and without a visible article no `speak` can be appended after it.
- `SpeechImplementsVoice`: every step of `ArticleSpeech` is a step of `Voice` under the mapping `Voiced`, or
  stutters. `NoOrphanVoice` is what makes the mapping of the last article's departure right.
- `IconTellsTruth`: when nothing is on its way a voice that speaks is shown, and an icon that shows one where there is none missed
  an end that reached a discarded controller. `IconInv` says what must hold while something is: unless a stop overtook a speak,
  stops come before speaks in the queue of commands; while a stop is on its way no event can set the icon and the engine starts
  nothing; and when none is, an engine that speaks has set, or is about to set, the icon by the result of its speak
  alone (`SpokenLast`, `StartsShown`), since its `start` may reach nobody, and an engine that is idle under an icon that
  speaks is `unheard`. `FirstIsHeard` adds that before the first controller nothing was spoken.
- `ReaderTypeCorrect`: `TypeInv` adds to the types that an answer never counts more than the backend holds
  (`Behind`), and that the toggles served and those still to be served are no more than the taps (`Counted`), which bounds the counts.
- `SettledArticleTruthful`: `SettledShowsServer` speaks of the moment when all calls are answered, so it is
  silent about every step but the last. `FreshInv` says it of every state: an article that no race has hit is the
  visible one, and each of its two marks either shows what the backend holds now, or some chain still owes the
  fetch or brings the truth (`Owes`). A toggle that is served ages every answer under way and makes its own
  chain the one that owes; an answer that is older than the one shown marks the screen as upset.

### Banners

- `AdsTypeCorrect`, `LoadedBannersShown`, `BrokenBuildsHaveCause`, `BannersFreed`: one invariant, `AdInv`. `Tidy` says of
  each State object what its place allows its banner and builder to be (`Sound`), that the registered controller belongs
  to screens that are still mounted (`RegisteredAlive`), that two screens of one kind share a controller only if
  that is noted in `tainted` (`Unalike`), and that a flag of the registered controller was set by a screen that has it
  (`FlagsOwned`). `Listed` ties the Navigator to the screens shown, and `Unused` says that a controller nobody refers to
  is as good as new. `LoadedBannerShown` needs all of them: a loaded banner stays hidden when its flag was set before,
  by a screen of the same kind, under the same controller.

### Preferences

- `PreferencesTypeCorrect`: a manage screen that waits has exactly one call that its FutureBuilder listens to (`Heard(net) =
  Expecting(stack)`), which every push, pop, late replacement and `update()` has to keep.
- `RemovesHitCards`: inductive only with `Hits`, for a network that keeps the order of calls. A grid agrees, place by place
  (`Agree`), with the controller's list, with every answer that will overwrite that list before the next
  removal takes effect, and, if no removal is under way, with the beginning of what the backend holds (`Fits`); each build's answer
  fits in the same way what comes after it. Uploads only append, so agreement survives them; a removal that the
  backend accepted is the point up to which the promise reaches, because its answer makes every grid wait again.
- `PreferencesShownTrue`: inductive only with `Truth`, for any network, and `Current`, for one that keeps the order.
  `Truth`: either an accepted removal has still to be told, or what each screen draws and the list its cards come from, and
  each answer that a FutureBuilder still listens to, is what the backend holds, unless the screen missed something. The list
  may be replaced by a fetch that no screen listens to. Out of order, or refused, such an answer is noted in `missed`; in order it is not, and
  `Current` shows why none is needed: every answer behind a screen's own in the queue was served after it, so it says the
  same, or a call that changed the backend in between is noted or is an accepted removal.

### Interests

- `InterestsTypeCorrect`, `ChosenAreSent`, `FiledUnderTheirOwner`, `ChooseSendsTheCards`: one invariant for the four. An add
  screen over which nothing was pushed is the visible one, and then all that is selected was chosen there; while an add screen
  stands that was opened in the session under way, whatever is above it, all that is selected was chosen in that session
  (`SelectionInv`): opening it emptied the selection, and every later choice is of that session until the user changes, which
  makes the screen `crossed` and each choice and debt `past`. An upload is `Fine` over the list it goes over, which is the
  controller's, or its own once the controller has another: what it owes lies ahead (`Ahead`), and a loop of the add screen that is
  not crossed goes over choices of its session only (`Fresh`). The lemmas say what a choice added, untapped or sent, and a
  session that changes, does to an upload under way, and that answers which strand choices leave their order alone.

### Main screen, feed, settings, videos

- `ShellTypeCorrect`, `SettingsTypeCorrect`, `VideoTypeCorrect`: the types are invariants of their own. `Standing` and `Placed` say
  that a sheet lies over its MainScreen and a handler stands for one, which the pops of the retries could undo; in
  `Settings` one call at most is heard, and only while nothing is drawn.
- `ShellKeepsAScreen`, `ShellSaysItIsOffline`: `ShellInv` has four parts, the types among them. `BaseInv`: the route at the bottom is
  a MainScreen as long as a MainScreen or a sign-in screen is there. `NavInv`: unless retries overlapped, one
  is under way at most, it has a sheet on the Navigator, and the route at the bottom is none. `OffInv`: while there is
  no connection there is a sheet, and two while a retry may still be told of a connection, one of which it leaves.
- `ShellDeadOnlyByLinks`: inductive as it stands, since every other handler looks at `mounted` first.
- `FeedTypeCorrect`, `FeedIsOfItsChip`: the strengthening `NewestFetch` says that while the newest fetch is pending it is
  the last of those under way, for the highlighted chip, and not late; and that once it brought articles every
  fetch left is late, and the feed is of the highlighted chip unless one of them overtook.
- `NewsFollowLanguage`: in `NewsInv` the call that is heard is in the app's language, and so is every other call of
  the home tab that is there, unless the language was switched under one.
- `ProfileHasLanguage`: in `ProfileInv`, unless `drifted`, the newest update under way carries the device's language and
  is not late, or the profile has the language and all that is under way is late.
- `VideoMarksStayTrue`: `VideoInv` says of every info under way that is not late (`Sound`), and of the marks that are
  settled (`MarksSound`), that it is the truth, or that a toggle of its video was served whose answer will ask again
  (`Owed`), or that an info sent after it will bring the truth (`Awaited`). Serving a toggle turns truth
  into debt, its answer turns debt into an info at the end of the queue, and nothing else may take that info away
  without a note. With nothing of the video under way only the truth is left.
- `PartsTypeCorrect`, `PartsCorrect`: a step of the composed specification is a step of one part and leaves the other
  three alone (`Composed`), so the composition implements each of the four and has all their invariants.

There is one proof module per component. `AuthFlowProofs` begins with lemmas on push, replace and pop and has
one lemma per building block of the handlers (`End`, `Throw`, a service that changes one slot) and one per action, so
that the step of the invariant is a case split that cites them; the other modules are laid out alike.
`QueueLemmas` says what taking an element out leaves of a sequence, and is shared by the models in which answers
come out of order or choices are untapped.

*Only model-checked.* The liveness properties of `auth_live`, `reader_live` and `speech` (that loaders end, that accounts get
their row, that the shimmer ends, that the voice falls silent): they need fairness and ENABLED, which are beyond this prover.
The two violated runs are counterexamples, and nothing is proved of them.

## 5. Hazards

`PROJECT.json` lists them with the line where each bites and the properties that would catch it. One has no
property: the video screen's like button throws for a guest before it changes any state. A "note" says where a
property deliberately stops: mostly at what the code does not even try to prevent.

## 6. Plan

The order of work was: the authentication flow and its abstract specification; the banners; the reader and its
voice; preferences; interests; what lives in and over the main screen; the theorems. What is left, the most useful first:

1. An abstract specification of one server value read and written through overlapping calls, which `ArticleReader`, `VideoReader` and
   `Preferences` would all implement: their invariants (`FreshInv`, `VideoInv`, `Truth`) are the same argument three times.
2. Composition: `MainShell` with `AuthFlow` over one `ScreenStack`, so that the routes that are `"other"` here are the screens
   there. Each alone is near the size that TLC finishes, so this needs an abstraction of `AuthFlow` first.

## 7. Not modelled

The article's font size (two guarded counters), its view count (posted once) and share link; the user-name
sheet; the notification switch; the video players' own play and pause; search, saved articles, notifications and static
screens, which fetch once and show; the other three sections of the home tab, which are the same code as the one
that is modelled; layout, wording and themes; plug-in set-up.

The program is the Dart code under `lib`, and `PROJECT.json` maps definitions to it alone. Not modelled, and not part of the
program, are the platform projects that `flutter create` generates, the counter test it leaves, and
the CocoaPods under `ios/Pods` (Branch, Firebase, nanopb, GTMSessionFetcher): third-party C and Objective-C whose
sources, mostly headers, are vendored by the build. They are seen here only through what the Dart plug-ins
promise, as external definitions.
