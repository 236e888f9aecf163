\* A post of each kind, the watcher and one refresh, two versions.
CONSTANTS
  Announcements = {a1}
  Changelog = {c1}
  Watcher = w
  Refreshers = {r}
  MaxVersion = 1
  MaxEvents = 3
SPECIFICATION FairSpec
INVARIANTS TypeOK PushedOnce OnlyNewsIsPushed EveryPostHasOneFate SecondPushHasAReason
PROPERTY PostsReachTheTable
