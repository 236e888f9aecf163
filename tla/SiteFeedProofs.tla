--------------------------- MODULE SiteFeedProofs ---------------------------
(***************************************************************************)
(* Proofs about the watcher of the official site, for any posts, any       *)
(* versions and any number of checks at a time.                            *)
(***************************************************************************)
EXTENDS SiteFeed, TLAPS

-----------------------------------------------------------------------------
(* The invariants.                                                         *)

\* A check has news in hand only between storing and pushing it, and what it
\* has seen on the site is in the table or still to be stored.
Handling(c) ==
  /\ check[c].step \notin {"store", "push", "pushlog"} => check[c].news = {}
  /\ check[c].step = "pushlog" => check[c].news \subseteq Changelog
  /\ check[c].step = "store" /\ ~check[c].first => firstDone
  /\ check[c].seen \ check[c].feed \subseteq posts

HandlingInv ==
  /\ snapshot \subseteq posts
  /\ watch = "start" => At(Watcher, "idle")
  /\ \A c \in Checks : Handling(c)

\* News: in the table, stored by a check that took no snapshot.
News(p) == p \in posts /\ firstDone /\ p \notin snapshot

\* A post is pushed once: before that it is in the hands of one check.
NewsInv ==
  /\ \A p \in Posts : tried[p] > 0 => tried[p] = 1 /\ News(p)
  /\ \A c \in Checks : \A p \in check[c].news : tried[p] = 0 /\ News(p)
  /\ \A c, d \in Checks : c # d => check[c].news \cap check[d].news = {}

\* The checks that know what npm has said and have not done with it.
Comparing == {c \in Checks : check[c].step \in {"compare", "notice", "mark"}}

\* Two answers of npm are in hand at a time only with an excuse.
LatestInv ==
  \A c, d \in Comparing : c # d => check[c].latest \in excused \cup {0}

\* A version that has been pushed is recorded while npm shows it, or is about
\* to be, and no other is in hand then; whoever still has it in hand has pushed
\* it or finds it recorded.
Announced(v) ==
  /\ noticed[v] = 1 /\ v # 0
  /\ npm = v => /\ notified = v \/ \E c \in Comparing : At(c, "mark") /\ check[c].latest = v
                /\ \A c \in Comparing : check[c].latest = v
  /\ \A c \in Comparing :
       check[c].latest = v => At(c, "mark") \/ (At(c, "compare") /\ notified = v)

NoticeInv ==
  /\ noticed[0] = 0
  /\ \A v \in Versions \ excused : noticed[v] > 0 => Announced(v)

-----------------------------------------------------------------------------
(* Types.                                                                  *)

LEMMA ZeroIsVersion == 0 \in Versions
BY SiteFeedAssumption DEF Versions

LEMMA IdleIsCheck == Idle \in Check /\ [Idle EXCEPT !.step = "record"] \in Check
BY ZeroIsVersion DEF Idle, Check, Asking

LEMMA InitTypes == Init => TypeOK
<1> SUFFICES ASSUME Init PROVE TypeOK
  OBVIOUS
<1>1. check \in [Checks -> Check]
  BY IdleIsCheck DEF Init
<1>2. events \in 0 .. MaxEvents
  BY SiteFeedAssumption DEF Init
<1>3. tried \in [Posts -> Nat] /\ noticed \in [Versions -> Nat]
  BY DEF Init
<1> QED BY <1>1, <1>2, <1>3, ZeroIsVersion DEF Init, TypeOK

LEMMA HappensTypes == ASSUME TypeOK, Happens PROVE events' \in 0 .. MaxEvents
BY SiteFeedAssumption DEF Happens, TypeOK

\* A step of a check: only its own record changes, and how.
LEMMA CheckTypes ==
  ASSUME TypeOK, NEW c \in Checks, CheckStep(c)
  PROVE  check' \in [Checks -> Check]
<1>1. /\ check \in [Checks -> Check] /\ check[c] \in Check
      /\ site \subseteq Posts /\ npm \in Versions /\ bark \in BOOLEAN
  BY DEF TypeOK
<1>2. ASSUME NEW step \in Asking, To(c, step) PROVE check' \in [Checks -> Check]
  BY <1>1, <1>2 DEF To, Check
<1>3. ASSUME ToRecord(c) \/ End(c) PROVE check' \in [Checks -> Check]
  BY <1>1, <1>3, IdleIsCheck DEF ToRecord, End
<1>4. ASSUME NEW more \in SUBSET Posts, NEW next \in Asking, Fetched(c, more, next)
      PROVE  check' \in [Checks -> Check]
  BY <1>1, <1>4 DEF Fetched, Check
<1>5. CASE NoService(c) \/ Record(c) \/ RecordFails(c) \/ AskNpmFails(c) \/ Mark(c) \/ MarkFails(c)
  BY <1>3, <1>5 DEF NoService, Record, RecordFails, AskNpmFails, Mark, MarkFails
<1>6. CASE FetchAnnouncements(c) \/ FetchChangelog(c)
  BY <1>1, <1>4, <1>6 DEF FetchAnnouncements, FetchChangelog, Asking
<1>7. CASE FetchAnnouncementsFails(c) \/ FetchChangelogFails(c)
  BY <1>2, <1>7 DEF FetchAnnouncementsFails, FetchChangelogFails, Asking
<1>8. CASE ReadFlag(c) \/ ReadFlagFails(c)
  <2>1. "store" \in Asking /\ (~firstDone) \in BOOLEAN
    BY DEF Asking
  <2>2. ASSUME NEW first \in BOOLEAN,
               check' = [check EXCEPT ![c].step = "store", ![c].first = first, ![c].key = bark]
        PROVE  check' \in [Checks -> Check]
    BY <1>1, <2>1, <2>2 DEF Check
  <2> QED BY <1>8, <2>1, <2>2 DEF ReadFlag, ReadFlagFails
<1>9. ASSUME NEW p \in Posts, StorePost(c, p) PROVE check' \in [Checks -> Check]
  <2>1. ASSUME NEW news \in SUBSET Posts,
               check' = [check EXCEPT ![c].feed = @ \ {p}, ![c].news = news]
        PROVE  check' \in [Checks -> Check]
    BY <1>1, <2>1 DEF Check
  <2>2. check[c].news \in SUBSET Posts /\ check[c].news \cup {p} \in SUBSET Posts
    BY <1>1 DEF Check
  <2> QED BY <1>9, <2>1, <2>2 DEF StorePost
<1>10. ASSUME NEW p \in Posts, StorePostFails(c, p) PROVE check' \in [Checks -> Check]
  BY <1>1, <1>10 DEF StorePostFails, Check
<1>11. CASE SetFlag(c) \/ SetFlagFails(c)
  BY <1>1, <1>11 DEF SetFlag, SetFlagFails, Check, Asking
<1>12. CASE PushAnnouncements(c) \/ PushChangelog(c)
  BY <1>1, <1>12 DEF PushAnnouncements, PushChangelog, Push, Pushed, Check, Asking
<1>13. CASE AskNpm(c)
  BY <1>1, <1>13 DEF AskNpm, Check, Asking
<1>14. CASE Compare(c) \/ CompareFails(c)
  <2>1. check[c].latest > check[c].local /\ To(c, "notice") => check' \in [Checks -> Check]
    BY <1>1 DEF To, Check, Asking
  <2> QED BY <1>3, <1>14, <2>1 DEF Compare, CompareFails
<1>15. CASE Notice(c)
  <2>1. "notice" \notin Asking
    BY DEF Asking
  <2> QED BY <1>1, <1>15, <2>1 DEF Notice, At, To, Check
<1> QED BY <1>5, <1>6, <1>7, <1>8, <1>9, <1>10, <1>11, <1>12, <1>13, <1>14, <1>15 DEF CheckStep

LEMMA StepTypes ==
  ASSUME TypeOK, NEW c \in Checks, CheckStep(c)
  PROVE  TypeOK'
<1> USE DEF outside, state, history, fates
<1>1. check' \in [Checks -> Check]
  BY CheckTypes
<1>2. /\ site \subseteq Posts /\ npm \in Versions /\ bark \in BOOLEAN /\ local \in Versions
      /\ posts \subseteq Posts /\ firstDone \in BOOLEAN
      /\ notified \in Versions /\ lastCheck \in BOOLEAN /\ watch \in {"start", "loop"}
      /\ events \in 0 .. MaxEvents /\ tried \in [Posts -> Nat] /\ noticed \in [Versions -> Nat]
      /\ snapshot \subseteq Posts /\ quiet \subseteq Posts /\ sent \subseteq Posts
      /\ lost \subseteq Posts /\ excused \subseteq Versions
  BY DEF TypeOK
<1>3. /\ \A d \in Checks : /\ check[d].latest \in Versions /\ check[d].local \in Versions
                          /\ check[d].seen \subseteq Posts /\ check[d].news \subseteq Posts
      /\ Happens => events' \in 0 .. MaxEvents
  BY HappensTypes DEF TypeOK, Check
<1>4. CASE NoService(c) \/ FetchAnnouncementsFails(c) \/ FetchChangelogFails(c)
           \/ ReadFlagFails(c) \/ SetFlagFails(c) \/ AskNpmFails(c) \/ RecordFails(c)
  BY <1>1, <1>2, <1>3, <1>4
     DEF NoService, FetchAnnouncementsFails, FetchChangelogFails, ReadFlagFails,
         SetFlagFails, AskNpmFails, RecordFails, TypeOK
<1>5. CASE FetchAnnouncements(c) \/ FetchChangelog(c) \/ ReadFlag(c) \/ Compare(c)
  BY <1>1, <1>2, <1>5 DEF FetchAnnouncements, FetchChangelog, ReadFlag, Compare, TypeOK
<1>6. ASSUME NEW p \in Posts, StorePost(c, p) \/ StorePostFails(c, p) PROVE TypeOK'
  BY <1>1, <1>2, <1>3, <1>6 DEF StorePost, StorePostFails, TypeOK
<1>7. CASE SetFlag(c) \/ Record(c)
  BY <1>1, <1>2, <1>3, <1>7 DEF SetFlag, Record, TypeOK
<1>8. CASE PushAnnouncements(c) \/ PushChangelog(c)
  <2>1. /\ tried' \in [Posts -> Nat] /\ sent' \subseteq Posts /\ lost' \subseteq Posts
        /\ events' \in 0 .. MaxEvents
    BY <1>2, <1>3, <1>8 DEF PushAnnouncements, PushChangelog, Push, Pushed
  <2> QED BY <1>1, <1>2, <1>8, <2>1 DEF PushAnnouncements, PushChangelog, Push, Pushed, TypeOK
<1>9. CASE AskNpm(c) \/ CompareFails(c) \/ MarkFails(c)
  <2>1. excused' \subseteq Versions
    BY <1>2, <1>3, <1>9 DEF AskNpm, CompareFails, MarkFails
  <2> QED BY <1>1, <1>2, <1>3, <1>9, <2>1 DEF AskNpm, CompareFails, MarkFails, TypeOK
<1>10. CASE Notice(c) \/ Mark(c)
  <2>1. noticed' \in [Versions -> Nat] /\ notified' \in Versions
    BY <1>2, <1>3, <1>10 DEF Notice, Mark
  <2> QED BY <1>1, <1>2, <1>10, <2>1 DEF Notice, Mark, TypeOK
<1> QED BY <1>4, <1>5, <1>6, <1>7, <1>8, <1>9, <1>10 DEF CheckStep

LEMMA BeginTypes ==
  ASSUME TypeOK, NEW c \in Checks, Begin(c)
  PROVE  check' \in [Checks -> Check]
<1>1. [Idle EXCEPT !.step = "announcements", !.local = local] \in Check
  BY ZeroIsVersion DEF Idle, Check, Asking, TypeOK
<1> QED BY <1>1 DEF Begin, TypeOK

LEMMA NextTypes == ASSUME TypeOK, [Next]_vars PROVE TypeOK'
<1> USE DEF outside, state, history, fates
<1>1. ASSUME NEW p \in Posts, Publish(p) \/ TakeDown(p) PROVE TypeOK'
  BY <1>1, HappensTypes DEF Publish, TakeDown, TypeOK
<1>2. ASSUME NEW v \in Versions, Release(v) PROVE TypeOK'
  BY <1>2, HappensTypes DEF Release, TypeOK
<1>3. CASE SaveSettings
  <2>1. (~bark) \in BOOLEAN
    OBVIOUS
  <2> QED BY <1>3, <2>1, HappensTypes DEF SaveSettings, TypeOK
<1>4. CASE StartWatching
  <2>1. check' \in [Checks -> Check]
    BY <1>4, BeginTypes DEF StartWatching, TypeOK, Checks
  <2> QED BY <1>4, <2>1 DEF StartWatching, TypeOK
<1>5. CASE Tick
  <2>1. check' \in [Checks -> Check]
    BY <1>5, BeginTypes DEF Tick, Checks
  <2> QED BY <1>5, <2>1 DEF Tick, TypeOK
<1>6. ASSUME NEW c \in Refreshers, Refresh(c) PROVE TypeOK'
  <2>1. check' \in [Checks -> Check]
    BY <1>6, BeginTypes DEF Refresh, Checks
  <2> QED BY <1>6, <2>1 DEF Refresh, TypeOK
<1>7. CASE Restart
  <2>1. \A c \in Checks : check[c].latest \in Versions /\ check[c].news \subseteq Posts
    BY DEF TypeOK, Check
  <2>2. lost' \subseteq Posts /\ excused' \subseteq Versions
    BY <1>7, <2>1 DEF Restart, TypeOK
  <2> QED BY <1>7, <2>2, IdleIsCheck, HappensTypes DEF Restart, TypeOK
<1>8. CASE UNCHANGED vars
  BY <1>8 DEF vars, TypeOK
<1> QED BY <1>1, <1>2, <1>3, <1>4, <1>5, <1>6, <1>7, <1>8, StepTypes DEF Next

\* Types, for any posts, any versions and any number of checks; above all, a
\* version on its way to the telephone is greater than the one in use when its
\* check began (CheckSiteFeedNow compares them before it pushes).
THEOREM FeedTypes == Spec => []TypeOK
BY InitTypes, NextTypes, PTL DEF Spec

-----------------------------------------------------------------------------
(* News.                                                                   *)

\* What a step of a check changes, and that the other checks stay.
LEMMA StepEffects ==
  ASSUME TypeOK, NEW c \in Checks, CheckStep(c)
  PROVE  /\ UNCHANGED <<outside, watch>>
         /\ posts' = posts \/ \E p \in Posts : StorePost(c, p)
         /\ UNCHANGED <<firstDone, snapshot>> \/ SetFlag(c)
         /\ UNCHANGED tried \/ PushAnnouncements(c) \/ PushChangelog(c)
         /\ UNCHANGED <<sent, lost>> \/ PushAnnouncements(c) \/ PushChangelog(c)
         /\ UNCHANGED quiet \/ \E p \in Posts : StorePost(c, p)
         /\ notified' = notified \/ Mark(c)
         /\ noticed' = noticed \/ Notice(c)
         /\ excused' = excused \/ AskNpm(c) \/ CompareFails(c) \/ MarkFails(c)
         /\ \A d \in Checks : d # c => check'[d] = check[d]
<1> USE DEF outside, state, history, fates
<1>1. CASE NoService(c) \/ FetchAnnouncements(c) \/ FetchAnnouncementsFails(c)
           \/ FetchChangelog(c) \/ FetchChangelogFails(c)
  BY <1>1 DEF NoService, FetchAnnouncements, FetchAnnouncementsFails, FetchChangelog,
              FetchChangelogFails, Fetched, To, End, TypeOK
<1>2. CASE ReadFlag(c) \/ ReadFlagFails(c) \/ SetFlag(c) \/ SetFlagFails(c)
  BY <1>2 DEF ReadFlag, ReadFlagFails, SetFlag, SetFlagFails, TypeOK
<1>3. ASSUME NEW p \in Posts, StorePost(c, p) \/ StorePostFails(c, p)
      PROVE  /\ UNCHANGED <<outside, watch, firstDone, snapshot, tried, notified, noticed, excused>>
             /\ UNCHANGED <<sent, lost>>
             /\ StorePost(c, p) \/ UNCHANGED <<posts, quiet>>
             /\ \A d \in Checks : d # c => check'[d] = check[d]
  BY <1>3 DEF StorePost, StorePostFails, TypeOK
<1>4. CASE PushAnnouncements(c) \/ PushChangelog(c)
  BY <1>4 DEF PushAnnouncements, PushChangelog, Push, Pushed, TypeOK
<1>5. CASE AskNpm(c) \/ AskNpmFails(c) \/ Compare(c) \/ CompareFails(c)
  BY <1>5 DEF AskNpm, AskNpmFails, Compare, CompareFails, To, ToRecord, TypeOK
<1>6. CASE Notice(c) \/ Mark(c) \/ MarkFails(c) \/ Record(c) \/ RecordFails(c)
  BY <1>6 DEF Notice, Mark, MarkFails, Record, RecordFails, To, ToRecord, End, TypeOK
<1> QED BY <1>1, <1>2, <1>3, <1>4, <1>5, <1>6 DEF CheckStep

\* What only grows.
LEMMA OnlyGrows ==
  ASSUME TypeOK, [Next]_vars
  PROVE  /\ posts \subseteq posts' /\ (firstDone => firstDone')
         /\ excused \subseteq excused'
<1> USE DEF outside, state, history, fates
<1>1. ASSUME NEW c \in Checks, CheckStep(c)
      PROVE  /\ posts \subseteq posts' /\ (firstDone => firstDone')
             /\ excused \subseteq excused'
  BY <1>1, StepEffects DEF StorePost, SetFlag, AskNpm, CompareFails, MarkFails
<1> QED BY <1>1 DEF Next, vars, Publish, TakeDown, Release, SaveSettings, StartWatching,
             Tick, Refresh, Restart

\* A check that begins, or is cut off, holds nothing.
LEMMA IdleHandling ==
  ASSUME NEW c \in Checks, check'[c].step \in {"idle", "announcements", "record"},
         check'[c].news = {}, check'[c].seen = {}
  PROVE  Handling(c)'
BY DEF Handling

LEMMA StepHandling ==
  ASSUME TypeOK, NEW c \in Checks, Handling(c), CheckStep(c)
  PROVE  Handling(c)'
<1> USE DEF state, At
<1>1. /\ check \in [Checks -> Check] /\ check[c].news \subseteq Posts
      /\ check[c] = [check[c] EXCEPT !.step = check[c].step]
  BY DEF TypeOK, Check
<1>2. CASE ToRecord(c) \/ End(c)
  BY <1>1, <1>2, IdleHandling DEF ToRecord, End, Idle
<1>3. CASE NoService(c) \/ Record(c) \/ RecordFails(c) \/ AskNpmFails(c) \/ Mark(c) \/ MarkFails(c)
  BY <1>2, <1>3 DEF NoService, Record, RecordFails, AskNpmFails, Mark, MarkFails
<1>4. CASE FetchAnnouncements(c) \/ FetchChangelog(c)
  BY <1>1, <1>4 DEF FetchAnnouncements, FetchChangelog, Fetched, Handling, Check
<1>5. CASE FetchAnnouncementsFails(c) \/ FetchChangelogFails(c)
  BY <1>1, <1>5 DEF FetchAnnouncementsFails, FetchChangelogFails, To, Handling, Check
<1>6. CASE ReadFlag(c) \/ ReadFlagFails(c)
  BY <1>1, <1>6 DEF ReadFlag, ReadFlagFails, Handling, Check
<1>7. ASSUME NEW p \in Posts, StorePost(c, p) \/ StorePostFails(c, p) PROVE Handling(c)'
  BY <1>1, <1>7 DEF StorePost, StorePostFails, NextPost, Handling, Check
<1>8. CASE SetFlag(c) \/ SetFlagFails(c)
  BY <1>1, <1>8 DEF SetFlag, SetFlagFails, Handling, Check
<1>9. CASE PushAnnouncements(c) \/ PushChangelog(c)
  BY <1>1, <1>9 DEF PushAnnouncements, PushChangelog, Push, Pushed, Handling, Check, Posts
<1>10. CASE AskNpm(c) \/ Notice(c)
  BY <1>1, <1>10 DEF AskNpm, Notice, To, Handling, Check
<1>11. CASE Compare(c) \/ CompareFails(c)
  BY <1>1, <1>2, <1>11 DEF Compare, CompareFails, To, Handling, Check
<1> QED BY <1>3, <1>4, <1>5, <1>6, <1>7, <1>8, <1>9, <1>10, <1>11 DEF CheckStep

LEMMA NobodyIdleSteps ==
  ASSUME NEW c \in Checks, CheckStep(c) PROVE check[c].step # "idle"
BY DEF CheckStep, NoService, FetchAnnouncements, FetchAnnouncementsFails, FetchChangelog,
       FetchChangelogFails, ReadFlag, ReadFlagFails, StorePost, StorePostFails, SetFlag,
       SetFlagFails, PushAnnouncements, PushChangelog, AskNpm, AskNpmFails, Compare,
       CompareFails, Notice, Mark, MarkFails, Record, RecordFails, NextPost, At

LEMMA StepSnapshot ==
  ASSUME TypeOK, HandlingInv, NEW c \in Checks, CheckStep(c)
  PROVE  snapshot' \subseteq posts'
<1>1. posts \subseteq posts'
  BY OnlyGrows DEF Next
<1>2. CASE SetFlag(c)
  BY <1>2 DEF SetFlag, HandlingInv, Handling, At
<1> QED BY <1>1, <1>2, StepEffects DEF HandlingInv

LEMMA NextHandling == ASSUME TypeOK, HandlingInv, [Next]_vars PROVE HandlingInv'
<1> USE DEF outside, state, history, fates
<1>1. posts \subseteq posts' /\ (firstDone => firstDone')
  BY OnlyGrows
<1>2. ASSUME NEW d \in Checks, check'[d] = check[d] PROVE Handling(d)'
  BY <1>1, <1>2 DEF HandlingInv, Handling
<1>3. ASSUME NEW c \in Checks, CheckStep(c) PROVE HandlingInv'
  <2>1. check[c].step # "idle" /\ watch' = watch
    BY <1>3, NobodyIdleSteps, StepEffects
  <2>2. watch' = "start" => At(Watcher, "idle")'
    BY <1>3, <2>1, StepEffects DEF HandlingInv, At, Checks
  <2> QED BY <1>2, <1>3, <2>2, StepHandling, StepSnapshot, StepEffects DEF HandlingInv
<1>4. ASSUME NEW c \in Checks, Begin(c), snapshot' = snapshot, watch' = "loop"
      PROVE HandlingInv'
  <2>1. \A d \in Checks \ {c} : check'[d] = check[d]
    BY <1>4 DEF Begin, TypeOK
  <2>2. Handling(c)'
    BY <1>4, IdleHandling DEF Begin, Idle, TypeOK
  <2> QED BY <1>1, <1>2, <1>4, <2>1, <2>2 DEF HandlingInv
<1>5. ASSUME UNCHANGED check, snapshot' = snapshot, watch' \in {watch, "loop"}
      PROVE HandlingInv'
  BY <1>1, <1>2, <1>5 DEF HandlingInv, At
<1>6. CASE Restart
  <2>1. \A c \in Checks : Handling(c)'
    BY <1>6, IdleHandling DEF Restart, Idle
  <2> QED BY <1>1, <1>6, <2>1 DEF Restart, HandlingInv, At, Idle, Checks
<1>7. ASSUME NEW c \in Refreshers, Refresh(c) PROVE HandlingInv'
  <2>1. \A d \in Checks \ {c} : check'[d] = check[d]
    BY <1>7 DEF Refresh, Begin, TypeOK
  <2>2. Handling(c)'
    BY <1>7, IdleHandling DEF Refresh, Begin, Idle, TypeOK, Checks
  <2>3. c \in Checks /\ Watcher \in Checks /\ c # Watcher
    BY SiteFeedAssumption DEF Checks
  <2> QED BY <1>1, <1>2, <1>7, <2>1, <2>2, <2>3 DEF Refresh, HandlingInv, At
<1>8. CASE StartWatching \/ Tick
  BY <1>4, <1>5, <1>8 DEF StartWatching, Tick, Checks
<1> QED BY <1>3, <1>5, <1>6, <1>7, <1>8 DEF Next, vars, Publish, TakeDown, Release, SaveSettings

LEMMA InitHandling == Init => HandlingInv
BY DEF Init, HandlingInv, Handling, Idle, At, Checks

\* The news in hand change when a post is stored, when they are pushed, and
\* when the process stops.
LEMMA NewsKept ==
  ASSUME TypeOK, HandlingInv, NEW c \in Checks, CheckStep(c),
         ~PushAnnouncements(c), ~PushChangelog(c), \A p \in Posts : ~StorePost(c, p)
  PROVE  check'[c].news = check[c].news
<1> USE DEF At
<1>1. check \in [Checks -> Check] /\ Handling(c)
  BY DEF TypeOK, HandlingInv
<1>2. CASE \/ NoService(c) \/ Record(c) \/ RecordFails(c) \/ AskNpmFails(c) \/ Mark(c)
           \/ MarkFails(c) \/ Compare(c)
  <2>1. check[c].news = {}
    BY <1>1, <1>2 DEF Handling, NoService, Record, RecordFails, AskNpmFails, Mark, MarkFails, Compare
  <2>2. check'[c] = Idle \/ check'[c] = [Idle EXCEPT !.step = "record"]
           \/ check'[c] = [check[c] EXCEPT !.step = "notice"]
    BY <1>1, <1>2 DEF NoService, Record, RecordFails, AskNpmFails, Mark, MarkFails, Compare,
                      To, ToRecord, End
  <2> QED BY <1>1, <2>1, <2>2 DEF Idle, Check
<1>3. CASE \/ FetchAnnouncements(c) \/ FetchAnnouncementsFails(c)
           \/ FetchChangelog(c) \/ FetchChangelogFails(c)
  BY <1>1, <1>3 DEF FetchAnnouncements, FetchAnnouncementsFails, FetchChangelog,
                    FetchChangelogFails, Fetched, To, Check
<1>4. CASE \/ ReadFlag(c) \/ ReadFlagFails(c) \/ SetFlag(c) \/ SetFlagFails(c)
  BY <1>1, <1>4 DEF ReadFlag, ReadFlagFails, SetFlag, SetFlagFails, Check
<1>5. CASE AskNpm(c) \/ CompareFails(c) \/ Notice(c)
  BY <1>1, <1>5 DEF AskNpm, CompareFails, Notice, To, Check
<1>6. ASSUME NEW p \in Posts, StorePostFails(c, p) PROVE check'[c].news = check[c].news
  BY <1>1, <1>6 DEF StorePostFails, Check
<1> QED BY <1>2, <1>3, <1>4, <1>5, <1>6 DEF CheckStep

LEMMA NewsFrame ==
  ASSUME TypeOK, HandlingInv, NewsInv, [Next]_vars, UNCHANGED tried,
         snapshot' = snapshot \/ (~firstDone /\ posts' = posts),
         \A d \in Checks : check'[d].news \subseteq check[d].news
  PROVE  NewsInv'
<1>1. \A p : News(p) => News(p)'
  BY OnlyGrows DEF News
<1> QED BY <1>1 DEF NewsInv

LEMMA StepNews ==
  ASSUME TypeOK, HandlingInv, NewsInv, NEW c \in Checks, CheckStep(c)
  PROVE  NewsInv'
<1> USE DEF At
<1>1. /\ check \in [Checks -> Check] /\ tried \in [Posts -> Nat] /\ Handling(c)
      /\ posts \subseteq Posts /\ \A d \in Checks : check[d].news \subseteq Posts
  BY DEF TypeOK, HandlingInv, Check
<1>2. \A d \in Checks : d # c => check'[d] = check[d]
  BY StepEffects
<1>3. CASE PushAnnouncements(c) \/ PushChangelog(c)
  <2>1. PICK kind \in {Announcements, Changelog} :
          /\ check'[c].news = check[c].news \ kind
          /\ tried' = IF check[c].key
                      THEN [p \in Posts |-> IF p \in check[c].news \cap kind
                                            THEN tried[p] + 1 ELSE tried[p]]
                      ELSE tried
          /\ UNCHANGED <<posts, firstDone, snapshot>>
    BY <1>1, <1>3 DEF PushAnnouncements, PushChangelog, Push, Pushed, Check, state
  <2>2. \A p : News(p)' <=> News(p)
    BY <2>1 DEF News
  <2>3. \A p \in Posts : \/ tried'[p] = tried[p]
                         \/ p \in check[c].news \cap kind /\ tried'[p] = tried[p] + 1
    BY <1>1, <2>1
  <2>4. \A p \in Posts : tried'[p] > 0 => tried'[p] = 1 /\ News(p)'
    BY <1>1, <2>2, <2>3 DEF NewsInv
  <2>5. \A d \in Checks : check'[d].news \subseteq check[d].news
    BY <1>2, <2>1
  <2>6. \A d \in Checks : \A p \in check'[d].news : p \notin check[c].news \cap kind
    BY <1>2, <2>1 DEF NewsInv
  <2>7. \A d \in Checks : \A p \in check'[d].news : tried'[p] = 0 /\ News(p)'
    BY <1>1, <2>2, <2>3, <2>5, <2>6 DEF NewsInv
  <2> QED BY <2>4, <2>5, <2>7 DEF NewsInv
<1>4. ASSUME NEW p \in Posts, StorePost(c, p) PROVE NewsInv'
  <2>1. /\ posts' = posts \cup {p} /\ UNCHANGED <<firstDone, snapshot, tried>>
        /\ check'[c].news = IF p \notin posts /\ ~check[c].first
                            THEN check[c].news \cup {p} ELSE check[c].news
    BY <1>1, <1>4 DEF StorePost, Check
  <2>2. \A q : News(q) => News(q)'
    BY <2>1 DEF News
  <2>3. CASE p \notin posts /\ ~check[c].first
    <3>1. firstDone /\ p \notin snapshot
      BY <1>1, <1>4, <2>3 DEF StorePost, NextPost, Handling, HandlingInv
    <3>2. tried[p] = 0 /\ News(p)' /\ \A d \in Checks : p \notin check[d].news
      BY <1>1, <2>1, <2>3, <3>1 DEF NewsInv, News
    <3> QED BY <1>1, <1>2, <2>1, <2>2, <2>3, <3>2 DEF NewsInv
  <2>4. CASE ~(p \notin posts /\ ~check[c].first)
    BY <1>2, <2>1, <2>2, <2>4 DEF NewsInv
  <2> QED BY <2>3, <2>4
<1>5. CASE ~PushAnnouncements(c) /\ ~PushChangelog(c) /\ \A p \in Posts : ~StorePost(c, p)
  <2>1. \A d \in Checks : check'[d].news = check[d].news
    BY <1>2, <1>5, NewsKept
  <2>2. UNCHANGED tried
    BY <1>5, StepEffects
  <2>3. snapshot' = snapshot \/ (~firstDone /\ posts' = posts)
    BY StepEffects DEF SetFlag
  <2> QED BY <2>1, <2>2, <2>3, NewsFrame DEF Next
<1> QED BY <1>3, <1>4, <1>5

LEMMA BeginKeepsNews ==
  ASSUME TypeOK, HandlingInv, NEW c \in Checks, At(c, "idle"), Begin(c)
  PROVE  \A d \in Checks : check'[d].news = check[d].news
<1>1. check[c].news = {}
  BY DEF HandlingInv, Handling, At
<1>2. \A d \in Checks : check'[d] = IF d = c THEN [Idle EXCEPT !.step = "announcements", !.local = local]
                                    ELSE check[d]
  BY DEF Begin, TypeOK
<1> QED BY <1>1, <1>2 DEF Idle

\* Nothing of the site's news moves while a check begins or the world changes.
LEMMA OutsideKeepsNews ==
  ASSUME TypeOK, HandlingInv, [Next]_vars, ~Restart, \A c \in Checks : ~CheckStep(c)
  PROVE  /\ UNCHANGED <<posts, firstDone, snapshot, tried, fates, notified, noticed>>
         /\ excused' = excused \/ \E v \in Versions : Release(v)
         /\ \A d \in Checks : check'[d].news = check[d].news
<1> USE DEF outside, state, history, fates
<1>1. CASE StartWatching \/ Tick
  BY <1>1, BeginKeepsNews DEF StartWatching, Tick, HandlingInv, Checks
<1>2. ASSUME NEW c \in Refreshers, Refresh(c)
      PROVE  \A d \in Checks : check'[d].news = check[d].news
  BY <1>2, BeginKeepsNews DEF Refresh, Checks
<1> QED BY <1>1, <1>2 DEF Next, vars, Publish, TakeDown, Release, SaveSettings, Refresh

LEMMA NextNews == ASSUME TypeOK, HandlingInv, NewsInv, [Next]_vars PROVE NewsInv'
<1>1. ASSUME NEW c \in Checks, CheckStep(c) PROVE NewsInv'
  BY <1>1, StepNews
<1>2. CASE Restart
  BY <1>2, NewsFrame DEF Restart, Idle, history, state
<1>3. CASE ~Restart /\ \A c \in Checks : ~CheckStep(c)
  BY <1>3, OutsideKeepsNews, NewsFrame
<1> QED BY <1>1, <1>2, <1>3

LEMMA InitNews == Init => NewsInv
BY DEF Init, NewsInv, Idle

LEMMA NewsHolds == Spec => [](HandlingInv /\ NewsInv)
<1>1. Spec => []HandlingInv
  BY InitHandling, NextHandling, FeedTypes, PTL DEF Spec
<1>2. Spec => []NewsInv
  BY <1>1, InitNews, NextNews, FeedTypes, PTL DEF Spec
<1> QED BY <1>1, <1>2, PTL

\* No post is pushed twice, for any posts and any number of checks at a time,
\* however they fail and are cut short: INSERT OR IGNORE gives each new row to
\* one check, which drops it from its news as it pushes it.
THEOREM NoPostTwice == Spec => []PushedOnce
<1>1. TypeOK /\ NewsInv => PushedOnce
  BY DEF TypeOK, NewsInv, PushedOnce
<1> QED BY <1>1, NewsHolds, FeedTypes, PTL

\* What the first snapshot has shown is never pushed, and nothing before it,
\* also when two checks believe to be the first or the flag cannot be read.
THEOREM SnapshotIsNoNews == Spec => []OnlyNewsIsPushed
<1>1. TypeOK /\ NewsInv => OnlyNewsIsPushed
  BY DEF TypeOK, NewsInv, News, OnlyNewsIsPushed
<1> QED BY <1>1, NewsHolds, FeedTypes, PTL

-----------------------------------------------------------------------------
(* The fate of a post.                                                     *)

LEMMA FateFrame ==
  ASSUME EveryPostHasOneFate, UNCHANGED <<posts, fates>>,
         \A d \in Checks : check'[d].news = check[d].news
  PROVE  EveryPostHasOneFate'
<1>1. \A p : InHand(p)' <=> InHand(p)
  BY DEF InHand
<1> QED BY <1>1 DEF EveryPostHasOneFate, fates

LEMMA StepFate ==
  ASSUME TypeOK, HandlingInv, NewsInv, EveryPostHasOneFate, NEW c \in Checks, CheckStep(c)
  PROVE  EveryPostHasOneFate'
<1>1. /\ check \in [Checks -> Check]
      /\ posts \subseteq Posts /\ \A d \in Checks : check[d].news \subseteq Posts
  BY DEF TypeOK, Check
<1>2. \A d \in Checks : d # c => check'[d] = check[d]
  BY StepEffects
<1>3. CASE PushAnnouncements(c) \/ PushChangelog(c)
  <2>1. PICK kind \in {Announcements, Changelog} :
          /\ check'[c].news = check[c].news \ kind
          /\ UNCHANGED <<posts, quiet>>
          /\ \/ sent' = sent \cup (check[c].news \cap kind) /\ lost' = lost
             \/ sent' = sent /\ lost' = lost \cup (check[c].news \cap kind)
    BY <1>1, <1>3 DEF PushAnnouncements, PushChangelog, Push, Pushed, Check, state
  <2> DEFINE gone == check[c].news \cap kind
  <2>2. \A p : InHand(p)' <=> InHand(p) /\ p \notin gone
    BY <1>2, <2>1 DEF InHand, NewsInv
  <2>3. gone \subseteq Posts /\ \A p \in gone : InHand(p)
    BY <1>1 DEF InHand
  <2> HIDE DEF gone
  <2>4. \/ sent' = sent \cup gone /\ lost' = lost
        \/ sent' = sent /\ lost' = lost \cup gone
    BY <2>1 DEF gone
  <2> QED BY <2>1, <2>2, <2>3, <2>4 DEF EveryPostHasOneFate
<1>4. ASSUME NEW p \in Posts, StorePost(c, p) PROVE EveryPostHasOneFate'
  <2>1. /\ posts' = posts \cup {p} /\ UNCHANGED <<sent, lost>>
        /\ check'[c].news = IF p \notin posts /\ ~check[c].first
                            THEN check[c].news \cup {p} ELSE check[c].news
        /\ quiet' = IF p \notin posts /\ check[c].first THEN quiet \cup {p} ELSE quiet
    BY <1>1, <1>4 DEF StorePost, Check
  <2>2. \A q : InHand(q)' <=> InHand(q) \/ (q = p /\ p \notin posts /\ ~check[c].first)
    BY <1>2, <2>1 DEF InHand
  <2> QED BY <1>1, <2>1, <2>2 DEF EveryPostHasOneFate
<1>5. CASE ~PushAnnouncements(c) /\ ~PushChangelog(c) /\ \A p \in Posts : ~StorePost(c, p)
  <2>1. \A d \in Checks : check'[d].news = check[d].news
    BY <1>2, <1>5, NewsKept
  <2>2. UNCHANGED <<posts, fates>>
    BY <1>5, StepEffects DEF fates
  <2> QED BY <2>1, <2>2, FateFrame
<1> QED BY <1>3, <1>4, <1>5

LEMMA RestartFate ==
  ASSUME TypeOK, EveryPostHasOneFate, Restart PROVE EveryPostHasOneFate'
<1>1. \A p : ~InHand(p)'
  BY DEF InHand, Restart, Idle
<1>2. \A d \in Checks : check[d].news \subseteq Posts
  BY DEF TypeOK, Check
<1>3. \A p : p \in UNION {check[d].news : d \in Checks} <=> InHand(p)
  BY DEF InHand
<1>4. \A p : p \in lost' <=> p \in lost \/ InHand(p)
  BY <1>3 DEF Restart
<1>5. UNCHANGED <<posts, quiet, sent>> /\ \A p : InHand(p) => p \in Posts
  BY <1>2 DEF Restart, state, InHand
<1> QED BY <1>1, <1>4, <1>5 DEF EveryPostHasOneFate

LEMMA NextFate ==
  ASSUME TypeOK, HandlingInv, NewsInv, EveryPostHasOneFate, [Next]_vars
  PROVE  EveryPostHasOneFate'
<1>1. ASSUME NEW c \in Checks, CheckStep(c) PROVE EveryPostHasOneFate'
  BY <1>1, StepFate
<1>2. CASE ~Restart /\ \A c \in Checks : ~CheckStep(c)
  BY <1>2, OutsideKeepsNews, FateFrame
<1> QED BY <1>1, <1>2, RestartFate

\* Every post of the table has exactly one fate, for any posts and any number of
\* checks at a time: kept quiet with a snapshot, sent, lost, or still in hand.
\* What a failed push, a missing BARK_KEY or a stop has lost never comes back.
THEOREM OneFate == Spec => []EveryPostHasOneFate
<1>1. Init => EveryPostHasOneFate
  BY DEF Init, EveryPostHasOneFate, InHand, Idle
<1> QED BY <1>1, NextFate, NewsHolds, FeedTypes, PTL DEF Spec

-----------------------------------------------------------------------------
(* Versions.                                                               *)

\* Who goes on with a version, and who is done with one.
LEMMA StepComparing ==
  ASSUME TypeOK, NEW c \in Checks, CheckStep(c), ~AskNpm(c), c \in Comparing'
  PROVE  c \in Comparing /\ check'[c].latest = check[c].latest
<1> USE DEF At, Comparing
<1>1. check \in [Checks -> Check]
  BY DEF TypeOK
<1>2. ~(ToRecord(c) \/ End(c))
  BY <1>1 DEF ToRecord, End, Idle
<1>3. CASE \/ FetchAnnouncements(c) \/ FetchAnnouncementsFails(c)
           \/ FetchChangelog(c) \/ FetchChangelogFails(c)
           \/ ReadFlag(c) \/ ReadFlagFails(c) \/ SetFlag(c) \/ SetFlagFails(c)
           \/ PushAnnouncements(c) \/ PushChangelog(c)
  BY <1>1, <1>3 DEF FetchAnnouncements, FetchAnnouncementsFails, FetchChangelog,
                    FetchChangelogFails, Fetched, To, ReadFlag, ReadFlagFails, SetFlag,
                    SetFlagFails, PushAnnouncements, PushChangelog, Push, Pushed, Check
<1>4. ASSUME NEW p \in Posts, StorePost(c, p) \/ StorePostFails(c, p) PROVE FALSE
  BY <1>1, <1>4 DEF StorePost, StorePostFails, NextPost, Check
<1>5. CASE Compare(c) \/ CompareFails(c) \/ Notice(c)
  BY <1>1, <1>2, <1>5 DEF Compare, CompareFails, Notice, To, Check
<1> QED BY <1>2, <1>3, <1>4, <1>5 DEF CheckStep, NoService, AskNpmFails, Mark, MarkFails,
             Record, RecordFails

LEMMA LatestFrame ==
  ASSUME LatestInv, excused \subseteq excused', Comparing' \subseteq Comparing,
         \A d \in Comparing' : check'[d].latest = check[d].latest
  PROVE  LatestInv'
BY DEF LatestInv

LEMMA StepLatest ==
  ASSUME TypeOK, LatestInv, NEW c \in Checks, CheckStep(c)
  PROVE  LatestInv'
<1>1. /\ check \in [Checks -> Check]
      /\ \A d \in Checks : d # c => check'[d] = check[d]
      /\ excused \subseteq excused'
  BY StepEffects, OnlyGrows DEF Next, TypeOK
<1>2. CASE AskNpm(c)
  <2>1. /\ Comparing' = Comparing \cup {c} /\ c \notin Comparing
        /\ check'[c].latest = npm
        /\ Comparing # {} => npm \in excused' \cup {0}
        /\ \A d \in Comparing : check[d].latest \in excused' \cup {0}
    BY <1>1, <1>2 DEF AskNpm, At, Comparing, Check, state
  <2> QED BY <1>1, <2>1 DEF LatestInv, Comparing
<1>3. CASE ~AskNpm(c)
  <2>1. \A d \in Comparing' : d \in Comparing /\ check'[d].latest = check[d].latest
    BY <1>1, <1>3, StepComparing DEF Comparing
  <2> QED BY <1>1, <2>1, LatestFrame
<1> QED BY <1>2, <1>3

LEMMA BeginsFromIdle ==
  ASSUME TypeOK, HandlingInv, [Next]_vars, ~Restart, \A c \in Checks : ~CheckStep(c)
  PROVE  /\ Comparing' = Comparing
         /\ \A d \in Comparing : check'[d] = check[d]
<1> USE DEF At, Comparing
<1>1. ASSUME NEW c \in Checks, check[c].step = "idle", Begin(c)
      PROVE  /\ Comparing' = Comparing
             /\ \A d \in Comparing : check'[d] = check[d]
  BY <1>1 DEF Begin, Idle, TypeOK
<1>2. CASE StartWatching \/ Tick
  BY <1>1, <1>2 DEF StartWatching, Tick, HandlingInv, Checks
<1>3. ASSUME NEW c \in Refreshers, Refresh(c)
      PROVE  /\ Comparing' = Comparing
             /\ \A d \in Comparing : check'[d] = check[d]
  BY <1>1, <1>3 DEF Refresh, Checks
<1>4. CASE UNCHANGED check
  BY <1>4
<1> QED BY <1>2, <1>3, <1>4 DEF Next, vars, Publish, TakeDown, Release, SaveSettings

LEMMA NextLatest ==
  ASSUME TypeOK, HandlingInv, LatestInv, [Next]_vars PROVE LatestInv'
<1>1. ASSUME NEW c \in Checks, CheckStep(c) PROVE LatestInv'
  BY <1>1, StepLatest
<1>2. CASE Restart
  BY <1>2 DEF Restart, Comparing, Idle, LatestInv
<1>3. CASE ~Restart /\ \A c \in Checks : ~CheckStep(c)
  BY <1>3, OnlyGrows, BeginsFromIdle, LatestFrame
<1> QED BY <1>1, <1>2, <1>3

LEMMA InitLatest == Init => LatestInv
BY DEF Init, LatestInv, Comparing, Idle

\* Nobody comes nearer to pushing a version again.
LEMMA AnnouncedFrame ==
  ASSUME NEW v, Announced(v), npm' = npm \/ npm' # v, noticed' = noticed, notified' = notified,
         Comparing' \subseteq Comparing,
         \A d \in Comparing' : /\ check'[d].latest = check[d].latest
                               /\ check[d].latest = v => check'[d].step = check[d].step,
         \A d \in Comparing : At(d, "mark") /\ check[d].latest = v => d \in Comparing'
  PROVE  Announced(v)'
BY DEF Announced, At

LEMMA OthersDoNotCompare ==
  ASSUME NEW c \in Checks, CheckStep(c), c \in Comparing
  PROVE  Compare(c) \/ CompareFails(c) \/ Notice(c) \/ Mark(c) \/ MarkFails(c)
BY DEF Comparing, At, CheckStep, NoService, FetchAnnouncements, FetchAnnouncementsFails,
       FetchChangelog, FetchChangelogFails, ReadFlag, ReadFlagFails, StorePost, StorePostFails,
       NextPost, SetFlag, SetFlagFails, PushAnnouncements, PushChangelog, AskNpm, AskNpmFails,
       Record, RecordFails

\* A check that holds an unexcused version holds it alone.
LEMMA HeldAlone ==
  ASSUME LatestInv, NEW c \in Comparing, check[c].latest \notin excused, check[c].latest # 0
  PROVE  Comparing = {c}
BY DEF LatestInv

LEMMA StepNotice ==
  ASSUME TypeOK, LatestInv, NoticeInv, NEW c \in Checks, CheckStep(c),
         NEW v \in Versions \ excused', noticed'[v] > 0, v # 0
  PROVE  Announced(v)'
<1>1. /\ check \in [Checks -> Check] /\ npm \in Versions /\ v \in Versions \ excused
      /\ \A d \in Checks : d # c => check'[d] = check[d]
      /\ npm' = npm /\ excused \subseteq excused'
      /\ noticed \in [Versions -> Nat]
  BY StepEffects, OnlyGrows DEF TypeOK, Next, outside, Versions
<1>2. noticed' = noticed => Announced(v)
  BY <1>1 DEF NoticeInv
<1>3. CASE AskNpm(c)
  <2>1. /\ Comparing' = Comparing \cup {c} /\ c \notin Comparing
        /\ check'[c].latest = npm /\ check'[c].step = "compare"
        /\ notified' = notified /\ noticed' = noticed
        /\ Comparing # {} => v # npm
    BY <1>1, <1>3 DEF AskNpm, At, Comparing, Check, state
  <2>2. Announced(v)
    BY <1>2, <2>1
  <2>3. \A d \in Comparing : check'[d] = check[d]
    BY <1>1, <2>1 DEF Comparing
  <2> QED BY <1>1, <2>1, <2>2, <2>3 DEF Announced, At
<1>4. CASE Compare(c) \/ CompareFails(c)
  <2>1. noticed' = noticed /\ notified' = notified /\ c \in Comparing /\ At(c, "compare")
    BY <1>4 DEF Compare, CompareFails, state, history, Comparing, At
  <2>2. Announced(v)
    BY <1>2, <2>1
  <2>3. CASE ToRecord(c)
    <3>1. Comparing' = Comparing \ {c}
      BY <1>1, <2>1, <2>3 DEF ToRecord, Comparing, Idle
    <3> QED BY <1>1, <2>1, <2>2, <3>1, AnnouncedFrame DEF At, Comparing
  <2>4. CASE To(c, "notice")
    <3>1. /\ Comparing' = Comparing /\ check'[c].latest = check[c].latest
          /\ \A d \in Comparing : d # c => check'[d] = check[d]
      BY <1>1, <2>1, <2>4 DEF To, Comparing, Check
    <3>2. v # check[c].latest
      <4>1. CASE CompareFails(c)
        BY <4>1 DEF CompareFails
      <4>2. CASE Compare(c) /\ ~ToRecord(c)
        BY <2>1, <2>2, <4>2, <1>1 DEF Compare, Announced, At
      <4> QED BY <1>4, <2>4, <4>1, <4>2, <1>1 DEF To, ToRecord, Idle, Check
    <3> QED BY <1>1, <2>1, <2>2, <3>1, <3>2, AnnouncedFrame
  <2> QED BY <1>4, <2>3, <2>4 DEF Compare, CompareFails
<1>5. CASE Notice(c)
  <2>1. /\ Comparing' = Comparing /\ c \in Comparing /\ At(c, "notice")
        /\ check'[c].latest = check[c].latest /\ check'[c].step = "mark"
        /\ \A d \in Comparing : d # c => check'[d] = check[d]
        /\ notified' = notified /\ excused' = excused
        /\ \/ noticed' = [noticed EXCEPT ![check[c].latest] = @ + 1]
           \/ noticed' = noticed
    BY <1>1, <1>5 DEF Notice, To, Comparing, Check, At, state
  <2>2. CASE v # check[c].latest \/ noticed' = noticed
    <3>1. noticed'[v] = noticed[v]
      BY <1>1, <2>1, <2>2
    <3>2. Announced(v)
      BY <1>1, <3>1 DEF NoticeInv
    <3>3. v # check[c].latest
      BY <2>1, <3>2 DEF Announced, At
    <3> QED BY <1>1, <2>1, <3>1, <3>2, <3>3 DEF Announced, At
  <2>3. CASE v = check[c].latest /\ noticed' # noticed
    <3>1. ~Announced(v)
      BY <2>1, <2>3 DEF Announced, At
    <3>2. noticed[v] = 0
      BY <1>1, <3>1 DEF NoticeInv
    <3>3. noticed'[v] = 1
      BY <1>1, <2>1, <2>3, <3>2
    <3>4. \A d \in Comparing : d = c
      BY <1>1, <2>1, <2>3, HeldAlone
    <3> QED BY <1>1, <2>1, <2>3, <3>3, <3>4 DEF Announced, At
  <2> QED BY <2>2, <2>3
<1>6. CASE Mark(c) \/ MarkFails(c)
  <2>1. /\ Comparing' = Comparing \ {c} /\ c \in Comparing /\ noticed' = noticed
        /\ \A d \in Comparing' : check'[d] = check[d]
    BY <1>1, <1>6 DEF Mark, MarkFails, history, Comparing, At, ToRecord, Idle
  <2>2. Announced(v)
    BY <1>2, <2>1
  <2>3. CASE Mark(c)
    <3>1. notified' = check[c].latest
      BY <2>3 DEF Mark
    <3>2. \A d \in Comparing' : check[d].latest # v
      BY <1>1, <2>1 DEF LatestInv
    <3>3. npm = v => notified' = v
      BY <2>1, <2>2, <3>1 DEF Announced
    <3>4. npm = v => Comparing' = {}
      BY <2>1, <2>2, <3>2 DEF Announced
    <3> QED BY <1>1, <2>1, <2>2, <3>2, <3>3, <3>4 DEF Announced
  <2>4. CASE MarkFails(c)
    <3>1. v # check[c].latest /\ notified' = notified
      BY <2>4 DEF MarkFails, state
    <3> QED BY <1>1, <2>1, <2>2, <3>1, AnnouncedFrame
  <2> QED BY <1>6, <2>3, <2>4
<1>7. CASE /\ ~AskNpm(c) /\ ~Compare(c) /\ ~CompareFails(c) /\ ~Notice(c)
           /\ ~Mark(c) /\ ~MarkFails(c)
  <2>1. c \notin Comparing /\ c \notin Comparing'
    BY <1>7, StepComparing, OthersDoNotCompare
  <2>2. Comparing' = Comparing /\ \A d \in Comparing : check'[d] = check[d]
    BY <1>1, <2>1 DEF Comparing
  <2>3. noticed' = noticed /\ notified' = notified
    BY <1>7, StepEffects
  <2> QED BY <1>1, <1>2, <2>2, <2>3, AnnouncedFrame
<1> QED BY <1>3, <1>4, <1>5, <1>6, <1>7

\* Version 0 is never greater than the one in use.
LEMMA ZeroUnnoticed ==
  ASSUME TypeOK, NoticeInv, [Next]_vars PROVE noticed'[0] = 0
<1>1. noticed[0] = 0 /\ noticed \in [Versions -> Nat] /\ 0 \in Versions
  BY ZeroIsVersion DEF NoticeInv, TypeOK
<1>2. ASSUME NEW c \in Checks, Notice(c) PROVE noticed'[0] = 0
  <2>1. check[c] \in Check /\ check[c].step = "notice"
    BY <1>2 DEF Notice, At, TypeOK
  <2>2. check[c].latest > check[c].local /\ check[c].local >= 0 /\ check[c].local \in Int
    BY <2>1 DEF Check, Asking, Versions
  <2> QED BY <1>1, <1>2, <2>2 DEF Notice
<1>3. ASSUME NEW c \in Checks, CheckStep(c) PROVE noticed'[0] = 0
  BY <1>1, <1>2, <1>3, StepEffects
<1> QED BY <1>1, <1>3 DEF Next, vars, Publish, TakeDown, Release, SaveSettings, StartWatching,
             Tick, Refresh, Restart, history

LEMMA NextNotice ==
  ASSUME TypeOK, HandlingInv, LatestInv, NoticeInv, [Next]_vars PROVE NoticeInv'
<1>0. excused \subseteq excused' /\ noticed'[0] = 0
  BY OnlyGrows, ZeroUnnoticed
<1> SUFFICES ASSUME NEW v \in Versions \ excused', noticed'[v] > 0, v # 0
             PROVE  Announced(v)'
  BY <1>0 DEF NoticeInv, Versions
<1>1. ASSUME NEW c \in Checks, CheckStep(c) PROVE Announced(v)'
  BY <1>1, StepNotice
<1>2. CASE Restart
  <2>1. /\ Comparing' = {} /\ UNCHANGED <<npm, notified, noticed>>
        /\ \A c \in Checks : At(c, "mark") => check[c].latest \in excused'
    BY <1>2 DEF Restart, Comparing, Idle, state, outside
  <2>2. Announced(v) /\ \A c \in Comparing : At(c, "mark") => check[c].latest # v
    BY <1>0, <2>1 DEF NoticeInv, Comparing
  <2> QED BY <2>1, <2>2, AnnouncedFrame
<1>3. CASE ~Restart /\ \A c \in Checks : ~CheckStep(c)
  <2>1. UNCHANGED <<notified, noticed>>
    BY <1>3, OutsideKeepsNews
  <2>2. Comparing' = Comparing /\ \A d \in Comparing : check'[d] = check[d]
    BY <1>3, BeginsFromIdle
  <2>3. Announced(v)
    BY <1>0, <2>1 DEF NoticeInv
  <2>4. npm' = npm \/ npm' # v
    <3>1. ASSUME NEW w \in Versions, Release(w) PROVE npm' # v
      BY <2>1, <3>1 DEF Release
    <3> QED BY <1>3, <3>1 DEF Next, vars, Publish, TakeDown, SaveSettings, StartWatching,
                 Tick, Refresh, outside
  <2> QED BY <2>1, <2>2, <2>3, <2>4, AnnouncedFrame
<1> QED BY <1>1, <1>2, <1>3

LEMMA InitNotice == Init => NoticeInv
BY ZeroIsVersion DEF Init, NoticeInv

\* A version is pushed again only for one of the four reasons, for any number
\* of versions and of checks at a time and whatever npm shows next.
THEOREM SecondPushes == Spec => []SecondPushHasAReason
<1>1. TypeOK /\ NoticeInv => SecondPushHasAReason
  BY DEF TypeOK, NoticeInv, Announced, SecondPushHasAReason
<1>2. Spec => []HandlingInv
  BY NewsHolds, PTL
<1>3. Spec => []LatestInv
  BY <1>2, InitLatest, NextLatest, FeedTypes, PTL DEF Spec
<1>4. Spec => []NoticeInv
  BY <1>2, <1>3, InitNotice, NextNotice, FeedTypes, PTL DEF Spec
<1> QED BY <1>1, <1>4, FeedTypes, PTL
=============================================================================
