------------------------------ MODULE SiteFeed ------------------------------
(***************************************************************************)
(* The watcher of the official site (server/sitefeed_watch.go).  A check   *)
(* fetches the announcements and the change log, stores the posts it does  *)
(* not know yet, pushes them to the administrator's telephone by Bark, and *)
(* then asks npm for the latest version of the CLI and pushes that.  The   *)
(* first check of all only takes a snapshot.  The watcher checks when it   *)
(* starts, if the last check is too old, and at every tick; a refresh in   *)
(* the admin pages (server/sitefeed_admin.go) is one more check, at the    *)
(* same time if it so happens.  A check goes through                       *)
(*                                                                         *)
(*   announcements -> changelog -> flag -> store -> push -> pushlog        *)
(*     -> npm -> compare -> notice -> mark -> record                       *)
(*                                                                         *)
(* and every step is one request or one statement of SQL.  A version is a  *)
(* number; the tag "latest" of npm may also move back to one it has left.  *)
(* A change of a change log entry's text is a new post, because its key is *)
(* a hash of the text.                                                     *)
(***************************************************************************)
EXTENDS Integers

CONSTANTS
  Announcements, \* posts of /public/announcements
  Changelog,     \* posts of /guides/changelog
  Watcher,       \* the goroutine RunSiteFeedWatcher
  Refreshers,    \* goroutines that serve handleSiteFeedRefresh
  MaxVersion,    \* bound: versions of the CLI
  MaxEvents      \* bound: changes of the site, of npm and of the settings,
                 \* failures and stops

ASSUME SiteFeedAssumption ==
  /\ Announcements \cap Changelog = {}
  /\ Watcher \notin Refreshers
  /\ MaxVersion \in Nat /\ MaxEvents \in Nat

VARIABLES
  site,      \* SUBSET Posts: what the site shows
  npm,       \* Versions: the latest on npm
  bark,      \* BOOLEAN: settings: is there a BARK_KEY?
  local,     \* Versions: settings: U1S1_VERSION
  posts,     \* SUBSET Posts: table site_posts
  firstDone, \* BOOLEAN: first_snapshot_done
  notified,  \* Versions: notified_cli_version, 0 is none
  lastCheck, \* BOOLEAN: is there a last_check_at?
  watch,     \* {"start", "loop"}: where the watcher is
  check,     \* [Checks -> Check]: the checks under way
  events,    \* changes, failures and stops so far
  tried,     \* history: [Posts -> Nat]: pushes in which a post has been
  snapshot,  \* history: the posts the site showed to the first check of all
  quiet,     \* history: posts stored by a check that took itself for the first
  sent,      \* history: posts in a push that succeeded
  lost,      \* history: news whose push failed, that were stored without a
             \* BARK_KEY or that a stop cut short
  noticed,   \* history: [Versions -> Nat]: pushes of a version
  excused    \* history: versions that may be pushed again, see Release, AskNpm

outside == <<site, npm, bark, local>>
state == <<posts, firstDone, notified, lastCheck>>
fates == <<quiet, sent, lost>>
history == <<tried, snapshot, fates, noticed, excused>>
vars == <<outside, state, watch, check, events, history>>

-----------------------------------------------------------------------------
Posts == Announcements \cup Changelog
Checks == {Watcher} \cup Refreshers
Versions == 0 .. MaxVersion

Idle == [step |-> "idle", local |-> 0, feed |-> {}, seen |-> {},
         first |-> FALSE, key |-> FALSE, news |-> {}, latest |-> 0]

Asking == {"idle", "announcements", "changelog", "flag", "store", "push",
           "pushlog", "npm", "compare", "record"}
Check ==
  {k \in [step : Asking \cup {"notice", "mark"}, local : Versions,
          feed : SUBSET Posts, seen : SUBSET Posts,
          first : BOOLEAN, key : BOOLEAN, news : SUBSET Posts, latest : Versions] :
     k.step \notin Asking => k.latest > k.local}

Init ==
  /\ site = {} /\ npm = 0
  /\ bark \in BOOLEAN
  /\ local = 0
  /\ posts = {} /\ firstDone = FALSE /\ notified = 0 /\ lastCheck = FALSE
  /\ watch = "start"
  /\ check = [c \in Checks |-> Idle]
  /\ events = 0
  /\ tried = [p \in Posts |-> 0]
  /\ snapshot = {} /\ quiet = {} /\ sent = {} /\ lost = {}
  /\ noticed = [v \in Versions |-> 0]
  /\ excused = {}

Happens == events < MaxEvents /\ events' = events + 1

-----------------------------------------------------------------------------
(* The site, npm and the settings.                                         *)

Publish(p) ==
  /\ Happens
  /\ p \notin site
  /\ site' = site \cup {p}
  /\ UNCHANGED <<npm, bark, local, state, watch, check, history>>

TakeDown(p) ==
  /\ Happens
  /\ p \in site
  /\ site' = site \ {p}
  /\ UNCHANGED <<npm, bark, local, state, watch, check, history>>

\* The tag "latest" moves, usually to a new version.  When it moves back to one
\* that was pushed, that may be pushed again: only the last one is remembered.
Release(v) ==
  /\ Happens
  /\ v # npm
  /\ npm' = v
  /\ excused' = IF noticed[v] > 0 THEN excused \cup {v} ELSE excused
  /\ UNCHANGED <<site, bark, local, state, watch, check, tried, snapshot, fates, noticed>>

\* The settings page: BARK_KEY set or cleared, the CLI version brought up to date.
SaveSettings ==
  /\ Happens
  /\ \/ bark' = ~bark /\ UNCHANGED local
     \/ local' = npm /\ local # npm /\ UNCHANGED bark
  /\ UNCHANGED <<site, npm, state, watch, check, history>>

-----------------------------------------------------------------------------
(* A check.                                                                *)

At(c, step) == check[c].step = step
To(c, step) == check' = [check EXCEPT ![c].step = step]
ToRecord(c) == check' = [check EXCEPT ![c] = [Idle EXCEPT !.step = "record"]]

Begin(c) == check' = [check EXCEPT ![c] = [Idle EXCEPT !.step = "announcements", !.local = local]]

End(c) == check' = [check EXCEPT ![c] = Idle]

\* siteFeedService: the egress proxy cannot be used; nothing is recorded.
NoService(c) ==
  /\ Happens
  /\ At(c, "announcements")
  /\ End(c)
  /\ UNCHANGED <<outside, state, watch, history>>

Fetched(c, more, next) ==
  check' = [check EXCEPT ![c].step = next,
                         ![c].feed = @ \cup more, ![c].seen = @ \cup more]

FetchAnnouncements(c) ==
  /\ At(c, "announcements")
  /\ Fetched(c, site \cap Announcements, "changelog")
  /\ UNCHANGED <<outside, state, watch, events, history>>

\* Also after a 401, if signing in does not help.
FetchAnnouncementsFails(c) ==
  /\ Happens
  /\ At(c, "announcements")
  /\ To(c, "changelog")
  /\ UNCHANGED <<outside, state, watch, history>>

FetchChangelog(c) ==
  /\ At(c, "changelog")
  /\ Fetched(c, site \cap Changelog, "flag")
  /\ UNCHANGED <<outside, state, watch, events, history>>

\* A page without entries is an error too, and has none to add.
FetchChangelogFails(c) ==
  /\ Happens
  /\ At(c, "changelog")
  /\ To(c, "flag")
  /\ UNCHANGED <<outside, state, watch, history>>

\* Faulty: the snapshot counts as taken before it is.
FaultyReadFlag(c) ==
  /\ At(c, "flag")
  /\ check' = [check EXCEPT ![c].step = "store", ![c].first = ~firstDone, ![c].key = bark]
  /\ firstDone' = TRUE
  /\ snapshot' = IF firstDone THEN snapshot ELSE check[c].seen
  /\ UNCHANGED <<outside, posts, notified, lastCheck, watch, events, tried, fates, noticed, excused>>

\* Faulty: nothing is stored when it cannot be pushed.
FaultyReadKey(c) ==
  /\ At(c, "flag")
  /\ check' = [check EXCEPT ![c].step = "store", ![c].first = ~firstDone, ![c].key = bark,
                            ![c].feed = IF bark THEN @ ELSE {}]
  /\ UNCHANGED <<outside, state, watch, events, history>>

\* Is it the first check, and is there a BARK_KEY?
ReadFlag(c) ==
  /\ At(c, "flag")
  /\ check' = [check EXCEPT ![c].step = "store", ![c].first = ~firstDone, ![c].key = bark]
  /\ UNCHANGED <<outside, state, watch, events, history>>

\* A flag that cannot be read counts as not set.
ReadFlagFails(c) ==
  /\ Happens
  /\ At(c, "flag")
  /\ check' = [check EXCEPT ![c].step = "store", ![c].first = TRUE, ![c].key = bark]
  /\ UNCHANGED <<outside, state, watch, history>>

\* The next post to store: announcements come before the change log.
NextPost(c, p) ==
  /\ At(c, "store")
  /\ p \in check[c].feed
  /\ p \in Announcements \/ check[c].feed \cap Announcements = {}

\* Faulty: whether the row was there already is not looked at.
FaultyStorePost(c, p) ==
  /\ NextPost(c, p)
  /\ posts' = posts \cup {p}
  /\ check' = [check EXCEPT ![c].feed = @ \ {p},
                            ![c].news = IF check[c].first THEN @ ELSE @ \cup {p}]
  /\ quiet' = IF check[c].first THEN quiet \cup {p} ELSE quiet
  /\ UNCHANGED <<outside, firstDone, notified, lastCheck, watch, events, tried, snapshot, sent, lost, noticed, excused>>

\* UpsertSitePost: INSERT OR IGNORE; a row that was not there is news.
StorePost(c, p) ==
  /\ NextPost(c, p)
  /\ posts' = posts \cup {p}
  /\ LET isNew == p \notin posts IN
       /\ check' = [check EXCEPT ![c].feed = @ \ {p},
                                 ![c].news = IF isNew /\ ~check[c].first THEN @ \cup {p} ELSE @]
       /\ quiet' = IF isNew /\ check[c].first THEN quiet \cup {p} ELSE quiet
  /\ UNCHANGED <<outside, firstDone, notified, lastCheck, watch, events, tried, snapshot, sent, lost, noticed, excused>>

\* The failure is logged, and the loop goes on with the next post.
StorePostFails(c, p) ==
  /\ Happens
  /\ NextPost(c, p)
  /\ check' = [check EXCEPT ![c].feed = @ \ {p}, ![c].seen = @ \ {p}]
  /\ UNCHANGED <<outside, state, watch, history>>

\* first_snapshot_done = "1", whatever has been fetched.
SetFlag(c) ==
  /\ At(c, "store")
  /\ check[c].feed = {}
  /\ firstDone' = TRUE
  /\ snapshot' = IF firstDone THEN snapshot ELSE check[c].seen
  /\ check' = [check EXCEPT ![c].step = "push", ![c].seen = {}, ![c].first = FALSE]
  /\ UNCHANGED <<outside, posts, notified, lastCheck, watch, events, tried, fates, noticed, excused>>

SetFlagFails(c) ==
  /\ Happens
  /\ At(c, "store")
  /\ check[c].feed = {}
  /\ check' = [check EXCEPT ![c].step = "push", ![c].seen = {}, ![c].first = FALSE]
  /\ UNCHANGED <<outside, state, watch, history>>

\* One push for all the news of a kind, if there is any and a BARK_KEY to push
\* with.  Whether it succeeds is only reported: a failed push is not repeated.
Pushed(c, kind, next, ok) ==
  LET news == check[c].news \cap kind IN
    /\ check' = [check EXCEPT ![c].step = next, ![c].news = @ \ kind]
    /\ tried' = IF check[c].key
                THEN [p \in Posts |-> IF p \in news THEN tried[p] + 1 ELSE tried[p]]
                ELSE tried
    /\ sent' = IF ok THEN sent \cup news ELSE sent
    /\ lost' = IF ok THEN lost ELSE lost \cup news
    /\ UNCHANGED <<outside, state, watch, snapshot, quiet, noticed, excused>>

Push(c, kind, next) ==
  \/ check[c].key /\ Pushed(c, kind, next, TRUE) /\ UNCHANGED events
  \/ check[c].key /\ check[c].news \cap kind # {} /\ Happens /\ Pushed(c, kind, next, FALSE)
  \/ ~check[c].key /\ Pushed(c, kind, next, FALSE) /\ UNCHANGED events

\* Faulty: one push per check, announcements first.
FaultyPushChangelog(c) ==
  /\ At(c, "pushlog")
  /\ IF \E p \in Announcements : tried[p] > 0
     THEN /\ check' = [check EXCEPT ![c].step = "npm", ![c].news = {}]
          /\ UNCHANGED <<outside, state, watch, events, history>>
     ELSE Push(c, Changelog, "npm")

PushAnnouncements(c) == At(c, "push") /\ Push(c, Announcements, "pushlog")
PushChangelog(c) == At(c, "pushlog") /\ Push(c, Changelog, "npm")

\* LatestCLIVersion.  Of two checks that are here at a time either may go by
\* what the other is about to change, so their versions may be pushed again.
AskNpm(c) ==
  /\ At(c, "npm")
  /\ check' = [check EXCEPT ![c].step = "compare", ![c].latest = npm]
  /\ LET others == {d \in Checks \ {c} : check[d].step \in {"compare", "notice", "mark"}} IN
       excused' = IF others = {} THEN excused
                  ELSE excused \cup (({npm} \cup {check[d].latest : d \in others}) \ {0})
  /\ UNCHANGED <<outside, state, watch, events, tried, snapshot, fates, noticed>>

AskNpmFails(c) ==
  /\ Happens
  /\ At(c, "npm")
  /\ ToRecord(c)
  /\ UNCHANGED <<outside, state, watch, history>>

\* Faulty: the version in use is announced too.
FaultyCompare(c) ==
  /\ At(c, "compare")
  /\ IF notified # check[c].latest THEN To(c, "notice") ELSE ToRecord(c)
  /\ UNCHANGED <<outside, state, watch, events, history>>

\* versionGreater, and is this version yet to be announced?
Compare(c) ==
  /\ At(c, "compare")
  /\ IF check[c].latest > check[c].local /\ notified # check[c].latest
     THEN To(c, "notice") ELSE ToRecord(c)
  /\ UNCHANGED <<outside, state, watch, events, history>>

\* A notified version that cannot be read counts as none.
CompareFails(c) ==
  /\ Happens
  /\ At(c, "compare")
  /\ check[c].latest > check[c].local
  /\ To(c, "notice")
  /\ excused' = excused \cup {check[c].latest}
  /\ UNCHANGED <<outside, state, watch, tried, snapshot, fates, noticed>>

\* Whether the push succeeds is only reported here too.
Notice(c) ==
  /\ At(c, "notice")
  /\ noticed' = IF check[c].key THEN [noticed EXCEPT ![check[c].latest] = @ + 1] ELSE noticed
  /\ To(c, "mark")
  /\ UNCHANGED <<outside, state, watch, events, tried, snapshot, fates, excused>>

\* Faulty: the version in use is recorded, not the new one.
FaultyMark(c) ==
  /\ At(c, "mark")
  /\ notified' = check[c].local
  /\ ToRecord(c)
  /\ UNCHANGED <<outside, posts, firstDone, lastCheck, watch, events, history>>

\* notified_cli_version, whether or not anything was pushed or has arrived.
Mark(c) ==
  /\ At(c, "mark")
  /\ notified' = check[c].latest
  /\ ToRecord(c)
  /\ UNCHANGED <<outside, posts, firstDone, lastCheck, watch, events, history>>

MarkFails(c) ==
  /\ Happens
  /\ At(c, "mark")
  /\ ToRecord(c)
  /\ excused' = excused \cup {check[c].latest}
  /\ UNCHANGED <<outside, state, watch, tried, snapshot, fates, noticed>>

\* last_check_at, even if nothing could be fetched.
Record(c) ==
  /\ At(c, "record")
  /\ lastCheck' = TRUE
  /\ End(c)
  /\ UNCHANGED <<outside, posts, firstDone, notified, watch, events, history>>

RecordFails(c) ==
  /\ Happens
  /\ At(c, "record")
  /\ End(c)
  /\ UNCHANGED <<outside, state, watch, history>>

CheckStep(c) ==
  \/ NoService(c)
  \/ FetchAnnouncements(c) \/ FetchAnnouncementsFails(c)
  \/ FetchChangelog(c) \/ FetchChangelogFails(c)
  \/ ReadFlag(c) \/ ReadFlagFails(c)
  \/ \E p \in Posts : StorePost(c, p) \/ StorePostFails(c, p)
  \/ SetFlag(c) \/ SetFlagFails(c)
  \/ PushAnnouncements(c) \/ PushChangelog(c)
  \/ AskNpm(c) \/ AskNpmFails(c)
  \/ Compare(c) \/ CompareFails(c)
  \/ Notice(c) \/ Mark(c) \/ MarkFails(c)
  \/ Record(c) \/ RecordFails(c)

-----------------------------------------------------------------------------
(* Who checks, and when.                                                   *)

\* RunSiteFeedWatcher: a check at once if the last one is an interval ago or
\* there was none; then the loop.
StartWatching ==
  /\ watch = "start"
  /\ watch' = "loop"
  /\ Begin(Watcher) \/ (lastCheck /\ UNCHANGED check)
  /\ UNCHANGED <<outside, state, events, history>>

\* The ticker; a tick during a check begins the next one.
Tick ==
  /\ watch = "loop" /\ At(Watcher, "idle")
  /\ Begin(Watcher)
  /\ UNCHANGED <<outside, state, watch, events, history>>

\* handleSiteFeedRefresh.
Refresh(c) ==
  /\ At(c, "idle")
  /\ Begin(c)
  /\ UNCHANGED <<outside, state, watch, events, history>>

\* The process stops, in whatever it was doing, and starts again.
Restart ==
  /\ Happens
  /\ lost' = lost \cup UNION {check[c].news : c \in Checks}
  /\ excused' = excused \cup {check[c].latest : c \in {d \in Checks : At(d, "mark")}}
  /\ check' = [c \in Checks |-> Idle]
  /\ watch' = "start"
  /\ UNCHANGED <<outside, state, tried, snapshot, quiet, sent, noticed>>

Next ==
  \/ \E p \in Posts : Publish(p) \/ TakeDown(p)
  \/ \E v \in Versions : Release(v)
  \/ SaveSettings
  \/ StartWatching \/ Tick
  \/ \E c \in Refreshers : Refresh(c)
  \/ \E c \in Checks : CheckStep(c)
  \/ Restart

Spec == Init /\ [][Next]_vars

\* The ticker goes on ticking, and the watcher goes on reading it; every request
\* of a check has a timeout, so each of its steps ends.  Nobody need refresh.
WatcherStep == StartWatching \/ Tick \/ CheckStep(Watcher)

FairSpec == Spec /\ WF_vars(WatcherStep)

-----------------------------------------------------------------------------
(* Properties.                                                             *)

\* Types; only a version greater than the one in use is worth a notice.
TypeOK ==
  /\ site \subseteq Posts /\ npm \in Versions /\ bark \in BOOLEAN /\ local \in Versions
  /\ posts \subseteq Posts /\ firstDone \in BOOLEAN
  /\ notified \in Versions /\ lastCheck \in BOOLEAN
  /\ watch \in {"start", "loop"}
  /\ check \in [Checks -> Check]
  /\ events \in 0 .. MaxEvents
  /\ tried \in [Posts -> Nat] /\ noticed \in [Versions -> Nat]
  /\ snapshot \subseteq Posts /\ quiet \subseteq Posts /\ sent \subseteq Posts /\ lost \subseteq Posts
  /\ excused \subseteq Versions

\* However checks overlap, fail and are cut short, and though posts come and go
\* on the site, no post is pushed twice.
PushedOnce == \A p \in Posts : tried[p] <= 1

\* Nothing is pushed before the snapshot is taken, and nothing that is in it:
\* what the site showed to the check that took it, as far as that check could
\* fetch and store it.
OnlyNewsIsPushed == \A p \in Posts : tried[p] > 0 => firstDone /\ p \notin snapshot

InHand(p) == \E c \in Checks : p \in check[c].news

\* A post in the table has exactly one fate, and keeps it: it was stored for a
\* snapshot, a push with it has succeeded, or it is lost, and until then it is
\* in the hands of a check.  Lost are the news whose push failed, that were
\* stored while there was no BARK_KEY, and that a stop of the process caught
\* between INSERT and push: none of these is pushed by a later check, although
\* the head of sitefeed_watch.go says that a failed step is tried again.
EveryPostHasOneFate ==
  /\ posts = quiet \cup sent \cup lost \cup {p \in Posts : InHand(p)}
  /\ quiet \cap sent = {} /\ quiet \cap lost = {} /\ sent \cap lost = {}
  /\ \A p \in quiet \cup sent \cup lost : ~InHand(p)

\* A version is pushed a second time only if there is one of four reasons: the
\* tag has moved back to it since, two checks have had an answer of npm in hand at a
\* time and it was one of the two, the version recorded could not be read or
\* written, or the process stopped between the push and the record.
SecondPushHasAReason == \A v \in Versions : noticed[v] > 1 => v \in excused

\* A post that stays on the site comes into the table, whoever refreshes,
\* whatever fails for a while, and whether or not there is a BARK_KEY.
PostsReachTheTable == \A p \in Posts : <>[](p \in site) => <>(p \in posts)
=============================================================================
