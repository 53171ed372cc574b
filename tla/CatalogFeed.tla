---------------------------- MODULE CatalogFeed ----------------------------
(***************************************************************************)
(* The outlet's change feed: the cloud materialises its catalog as         *)
(* numbered entries, offline devices pull the ones after their cursor.     *)
(* Sources: apps/api/src/edge/edge-feed.service.ts and, on the device,     *)
(* pull and applyFeed of apps/edge/sidecar/engine.js.                      *)
(*                                                                         *)
(* A refresh reads the catalog in several statements while it is edited,   *)
(* so it may mix old and new rows; it holds the row lock of the outlet's   *)
(* feed state until it commits.  Pages are read outside that transaction,  *)
(* replies are lost, a device's sync loop and its activation may both be   *)
(* pulling, and a restored database starts its numbering again.            *)
(***************************************************************************)
EXTENDS Naturals, FiniteSets, FiniteSetsExt

CONSTANTS
    Rows,           \* catalog rows (items, tables, staff ...), as numbers
    Pullers,        \* pulls that may be under way at once
    Devices,        \* the outlet's offline devices
    DeviceOf,       \* the device each pull runs on
    PageSize,       \* changes per page
    MaxEdits,       \* bound on edits of the catalog
    MaxRebuilds     \* bound on restores of the cloud's database

ASSUME FeedAssumption ==
    /\ {PageSize, MaxEdits, MaxRebuilds} \subseteq Nat /\ PageSize > 0
    /\ Rows \subseteq Nat /\ IsFiniteSet(Rows)
    /\ DeviceOf \in [Pullers -> Devices] /\ "nobody" \notin Pullers

VARIABLES
    content,    \* the catalog's rows: a version, or Gone
    edits,      \* edits made so far
    entry,      \* edge_feed_entries: sequence number and content stored per row
    feedState,  \* edge_feed_states: last sequence number, whether a refresh
                \* has committed, and the holder of the row's lock
    rebuilds,   \* restores so far
    pull,       \* each pull's progress
    device,     \* each device's catalog and cursor, and whether rows of a lost
                \* feed or of an overtaken page may be in it (a history variable)
    overtaken   \* history: pulls during which another pull stored a page on their device

feedVars == <<content, edits, entry, feedState, rebuilds, pull, device, overtaken>>

Gone == 0
NoPull == [at |-> "idle"]
FeedFree == "nobody"
Unread == [seq |-> 0, val |-> Gone]

Versions == 0 .. (MaxEdits + 1)
SomeRows == UNION {[R -> Versions] : R \in SUBSET Rows}
Page == [reset: BOOLEAN, changes: SomeRows, cursor: Nat, more: BOOLEAN, epoch: Nat]
Pulls == {NoPull} \cup [at: {"asked"}, cursor: Nat]
         \cup [at: {"build"}, cursor: Nat, base: Nat, read: SomeRows]
         \cup [at: {"page"}, cursor: Nat, last: Nat]
         \cup [at: {"reply"}, page: Page]

FeedTypeOK ==
    /\ content \in [Rows -> Versions]
    /\ edits \in 0 .. MaxEdits
    /\ entry \in [Rows -> [seq: Nat, val: Versions]]
    /\ feedState \in [last: Nat, ran: BOOLEAN, lock: Pullers \cup {FeedFree}]
    /\ rebuilds \in 0 .. MaxRebuilds
    /\ device \in [Devices -> [catalog: [Rows -> Versions], cursor: Nat, stale: BOOLEAN]]
    /\ overtaken \subseteq Pullers
    /\ pull \in [Pullers -> Pulls]

FeedInit ==
    /\ content = [r \in Rows |-> 1]
    /\ edits = 0
    /\ entry = [r \in Rows |-> Unread]
    /\ feedState = [last |-> 0, ran |-> FALSE, lock |-> FeedFree]
    /\ rebuilds = 0
    /\ pull = [p \in Pullers |-> NoPull]
    /\ device = [d \in Devices |-> [catalog |-> [r \in Rows |-> Gone], cursor |-> 0, stale |-> FALSE]]
    /\ overtaken = {}

SetPull(p, rec) == pull' = [pull EXCEPT ![p] = rec]

-----------------------------------------------------------------------------
\* The catalog changes under the feed: a new version, or the row is removed.
EditRow(r) ==
    /\ edits < MaxEdits
    /\ \E v \in {Gone, edits + 2} : v # content[r] /\ content' = [content EXCEPT ![r] = v]
    /\ edits' = edits + 1
    /\ UNCHANGED <<entry, feedState, rebuilds, pull, device, overtaken>>

\* pull: the cursor is read before the request, and used after it.
StartPull(p) ==
    /\ pull[p] = NoPull
    /\ SetPull(p, [at |-> "asked", cursor |-> device[DeviceOf[p]].cursor])
    /\ overtaken' = overtaken \ {p}
    /\ UNCHANGED <<content, edits, entry, feedState, rebuilds, device>>

TakeFeedLock(p) ==
    /\ feedState.lock = FeedFree
    /\ feedState' = [feedState EXCEPT !.lock = p]

RefreshBegins(p) ==
    /\ pull[p].at = "asked"
    /\ TakeFeedLock(p)
    /\ SetPull(p, [at |-> "build", cursor |-> pull[p].cursor, base |-> feedState.last,
                   read |-> [r \in {} |-> Gone]])
    /\ UNCHANGED <<content, edits, entry, rebuilds, device, overtaken>>

\* A refresh ran within the last seconds: its numbers are served.
RefreshSkipped(p) ==
    /\ pull[p].at = "asked"
    /\ feedState.lock = FeedFree /\ feedState.ran
    /\ SetPull(p, [at |-> "page", cursor |-> pull[p].cursor, last |-> feedState.last])
    /\ UNCHANGED <<content, edits, entry, feedState, rebuilds, device, overtaken>>

\* buildRows: one statement per kind of row, in a fixed order.
BuildRow(p) ==
    /\ pull[p].at = "build"
    /\ LET todo == Rows \ DOMAIN pull[p].read
           r == Min(todo)
       IN /\ todo # {}
          /\ SetPull(p, [pull[p] EXCEPT !.read =
                [x \in DOMAIN @ \cup {r} |-> IF x = r THEN content[r] ELSE @[x]]])
    /\ UNCHANGED <<content, edits, entry, feedState, rebuilds, device, overtaken>>

\* Rows whose hash differs from the stored entry: the changed ones are numbered
\* first, in reading order, then the removed ones.
Changed(read) == {r \in Rows : read[r] # Gone /\ (entry[r].seq = 0 \/ entry[r].val # read[r])}
Removed(read) == {r \in Rows : read[r] = Gone /\ entry[r].seq > 0 /\ entry[r].val # Gone}

NumberOf(r, read) ==
    LET before(S) == Cardinality({x \in S : x < r})
    IN IF r \in Changed(read) THEN before(Changed(read)) + 1
       ELSE Cardinality(Changed(read)) + before(Removed(read)) + 1

RefreshCommits(p) ==
    /\ pull[p].at = "build"
    /\ DOMAIN pull[p].read = Rows
    /\ LET read == pull[p].read
           moved == Changed(read) \cup Removed(read)
           last == pull[p].base + Cardinality(moved)
       IN /\ entry' = [r \in Rows |-> IF r \in moved
                            THEN [seq |-> pull[p].base + NumberOf(r, read), val |-> read[r]]
                            ELSE entry[r]]
          /\ feedState' = [last |-> last, ran |-> TRUE, lock |-> FeedFree]
          /\ SetPull(p, [at |-> "page", cursor |-> pull[p].cursor, last |-> last])
    /\ UNCHANGED <<content, edits, rebuilds, device, overtaken>>

\* Variant of the code: the cursor handed out is the feed's end, not the page's.
PageCursorAtEnd(page, from, last) == last

\* The cursor a page hands out: that of its last change, or the one it started at.
PageCursor(page, from, last) ==
    IF page = {} THEN from ELSE Max({entry[r].seq : r \in page})

\* feed: a cursor beyond the last number asks the device to start afresh.
ReadPage(p) ==
    /\ pull[p].at = "page"
    /\ LET reset == pull[p].cursor > pull[p].last
           from == IF reset THEN 0 ELSE pull[p].cursor
           newer == {r \in Rows : entry[r].seq > from}
           page == {r \in newer : Cardinality({x \in newer : entry[x].seq < entry[r].seq}) < PageSize}
       IN SetPull(p, [at |-> "reply", page |->
            [reset |-> reset,
             changes |-> [r \in page |-> entry[r].val],
             cursor |-> PageCursor(page, from, pull[p].last),
             more |-> page # newer, epoch |-> rebuilds]])
    /\ UNCHANGED <<content, edits, entry, feedState, rebuilds, device, overtaken>>

\* pulls of the same device under way beside p: the sync loop runs one at a time, but
\* an activation pulls beside it
Rivals(p) == {q \in Pullers \ {p} : DeviceOf[q] = DeviceOf[p] /\ pull[q] # NoPull}

\* applyFeed: changes and cursor in one transaction, then the next page if any.
ApplyPage(p) ==
    /\ pull[p].at = "reply"
    /\ LET page == pull[p].page
           old == device[DeviceOf[p]]
           base == IF page.reset THEN [r \in Rows |-> Gone] ELSE old.catalog
       IN /\ device' = [device EXCEPT ![DeviceOf[p]] =
                       [catalog |-> [r \in Rows |-> IF r \in DOMAIN page.changes
                                        THEN page.changes[r] ELSE base[r]],
                        cursor |-> page.cursor,
                        stale |-> \/ page.epoch # rebuilds
                                  \/ ~page.reset /\ (old.stale \/ p \in overtaken)]]
          /\ SetPull(p, IF page.more THEN [at |-> "asked", cursor |-> page.cursor] ELSE NoPull)
    /\ overtaken' = (overtaken \ {p}) \cup Rivals(p)
    /\ UNCHANGED <<content, edits, entry, feedState, rebuilds>>

\* The request or its reply is lost, or a process dies: the transaction rolls back.
PullFails(p) ==
    /\ pull[p] # NoPull
    /\ SetPull(p, NoPull)
    /\ feedState' = [feedState EXCEPT !.lock = IF @ = p THEN FeedFree ELSE @]
    /\ UNCHANGED <<content, edits, entry, rebuilds, device, overtaken>>

\* The cloud's database is restored without its feed, which starts from nothing;
\* what was running on the server is gone, replies already sent are not.
FeedRebuilt ==
    /\ rebuilds < MaxRebuilds
    /\ rebuilds' = rebuilds + 1
    /\ entry' = [r \in Rows |-> Unread]
    /\ feedState' = [last |-> 0, ran |-> FALSE, lock |-> FeedFree]
    /\ pull' = [p \in Pullers |-> IF pull[p].at = "reply" THEN pull[p] ELSE NoPull]
    /\ device' = [d \in Devices |-> [device[d] EXCEPT !.stale = TRUE]]
    /\ UNCHANGED <<content, edits, overtaken>>

FeedNext ==
    \/ \E r \in Rows : EditRow(r)
    \/ \E p \in Pullers :
        \/ StartPull(p)
        \/ RefreshBegins(p)
        \/ RefreshSkipped(p)
        \/ BuildRow(p)
        \/ RefreshCommits(p)
        \/ ReadPage(p)
        \/ ApplyPage(p)
        \/ PullFails(p)
    \/ FeedRebuilt

FeedSpec == FeedInit /\ [][FeedNext]_feedVars

-----------------------------------------------------------------------------
(* "A cursor never skips a row": what the feed numbered up to the device's *)
(* cursor is what the device holds, whatever refreshes, pages and lost     *)
(* replies overlapped.  A device that has not started afresh since its     *)
(* feed was lost is exempt: it notices only while its cursor is ahead. So  *)
(* is one that stored a page another of its pulls had overtaken: the page  *)
(* puts older rows and an older cursor back, and a third reply, asked for  *)
(* before that, moves the cursor on past them.                             *)
CursorNeverSkips ==
    \A d \in Devices : ~device[d].stale =>
        \A r \in Rows : entry[r].seq <= device[d].cursor => device[d].catalog[r] = entry[r].val
=============================================================================
