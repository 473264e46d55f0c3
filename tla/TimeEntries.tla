----------------------------- MODULE TimeEntries -----------------------------
(***************************************************************************)
(* The time entries of one worker in one union, who may have a seat in     *)
(* several of its locals: clocking in and out, ranges entered afterwards   *)
(* (by the worker, by an administrator, by a bulk event), and the review   *)
(* that leads to payroll.  The hours of an entry are counted by needed.ts, *)
(* ot-policy.ts and the export once it has an end.                         *)
(*                                                                         *)
(* In Postgres every query is a transaction of its own, so that a handler  *)
(* that reads and then writes is two steps; the memory store answers both  *)
(* at once, but its routes too look at an entry before they change it.     *)
(* No handler tells the connection whose request it serves: what is said   *)
(* here of Postgres is about a connection that row policies do not bind.   *)
(***************************************************************************)
EXTENDS Naturals, FiniteSets

CONSTANTS Entries,   \* rows that may come into being
          Punches,   \* requests in flight
  Halls,     \* the locals the worker works in
          MaxTime    \* bound: the last moment of the model

ASSUME MaxTimeAssumption == MaxTime \in Nat

VARIABLES
  store,      \* "memory" or "postgres"
  now,        \* the wall clock
  entry,      \* time_entries
  punch,      \* what each request in flight has read
  collided    \* history: two requests were in flight together (in memory: reviews)

timeVars == <<store, now, entry, punch, collided>>

NoPunch == [kind |-> "none"]
NoEntry == [status |-> "none", source |-> "none", local |-> "none", in |-> 0, out |-> 0,
            createdAt |-> 0]

TimeInit ==
  /\ store \in {"memory", "postgres"}
  /\ now = 0
  /\ entry = [e \in Entries |-> NoEntry]
  /\ punch = [p \in Punches |-> NoPunch]
  /\ collided = FALSE

LiveEntries == {e \in Entries : entry[e].status # "none"}
ActiveEntries == {e \in LiveEntries : entry[e].status = "active"}
PunchInFlight(P) == \E p \in P : punch[p] # NoPunch

\* Mutant: assertValidRange is not called.
AnyRanges == [in : 0..MaxTime, out : 0..MaxTime]

ManualRanges == {r \in [in : 0..MaxTime, out : 0..MaxTime] : r.in < r.out}

\* rangesOverlap: half-open ranges.
RangesOverlap(a, b) == a.in < b.out /\ b.in < a.out

\* Mutant: only entries that were handed in count.
OverlapsReviewed(h, r) ==
  \E e \in LiveEntries :
    /\ entry[e].local = h /\ entry[e].status \in {"submitted", "approved"}
    /\ RangesOverlap(entry[e], r)

\* Mutant: a range is only held against ranges.
OverlapsEntered(h, r) ==
  \E e \in LiveEntries :
    /\ entry[e].local = h /\ entry[e].source = "range" /\ entry[e].status # "rejected"
    /\ RangesOverlap(entry[e], r)

\* Only the entries of the local written to are looked at.  An active entry is
\* taken to end where the new range ends; rejected ones do not count.
HasOverlappingEntry(h, r) ==
  \E e \in LiveEntries :
    /\ entry[e].local = h /\ entry[e].status # "rejected"
    /\ RangesOverlap(IF entry[e].status = "active" THEN [in |-> entry[e].in, out |-> r.out]
                                              ELSE entry[e], r)

-----------------------------------------------------------------------------
StartPunch(p, o) ==
  /\ punch[p] = NoPunch
  /\ punch' = [punch EXCEPT ![p] = o]
  /\ collided' = (collided \/ PunchInFlight(Punches))
  /\ UNCHANGED <<store, now, entry>>

EndPunch(p) ==
  /\ punch' = [punch EXCEPT ![p] = NoPunch]
  /\ collided' = (collided \/ PunchInFlight(Punches \ {p}))
  /\ UNCHANGED <<store, now>>

\* The memory store does not let go between reading and writing.
MemoryStep == UNCHANGED <<store, now, punch, collided>>

InsertEntry(e, status, source, h, from, to) ==
  /\ entry[e].status = "none"
  /\ entry' = [entry EXCEPT ![e] = [status |-> status, source |-> source, local |-> h,
                                    in |-> from, out |-> to, createdAt |-> now]]

(* Clocking in: the worker is clocked in nowhere in the union, then the row *)
(* is inserted.                                                             *)
ClockInRead(p) ==
  /\ store = "postgres"
  /\ ActiveEntries = {}
  /\ StartPunch(p, [kind |-> "clock-in"])

ClockInInsert(p, e, h) ==
  /\ punch[p].kind = "clock-in"
  /\ InsertEntry(e, "active", "clock", h, now, now)
  /\ EndPunch(p)

ClockInMemory(e, h) ==
  /\ store = "memory"
  /\ ActiveEntries = {}
  /\ InsertEntry(e, "active", "clock", h, now, now)
  /\ MemoryStep

(* Clocking out: the entry is active, then it is completed whatever it is.  *)
ClockOutRead(p, e) ==
  /\ store = "postgres"
  /\ entry[e].status = "active"
  /\ StartPunch(p, [kind |-> "clock-out", entry |-> e])

ClosedEntry(e) == [entry EXCEPT ![e].status = "completed", ![e].out = now]

ClockOutWrite(p) ==
  /\ punch[p].kind = "clock-out"
  /\ entry' = ClosedEntry(punch[p].entry)
  /\ EndPunch(p)

ClockOutMemory(e) ==
  /\ store = "memory"
  /\ entry[e].status = "active"
  /\ entry' = ClosedEntry(e)
  /\ MemoryStep

(* A range by hand.  A worker's own is completed, an administrator's and a  *)
(* bulk event's is submitted.                                               *)
RangeRead(p, h, r, status) ==
  /\ store = "postgres"
  /\ ~HasOverlappingEntry(h, r)
  /\ StartPunch(p, [kind |-> "range", local |-> h, range |-> r, status |-> status])

RangeInsert(p, e) ==
  /\ punch[p].kind = "range"
  /\ InsertEntry(e, punch[p].status, "range", punch[p].local,
                 punch[p].range.in, punch[p].range.out)
  /\ EndPunch(p)

RangeMemory(e, h, r, status) ==
  /\ store = "memory"
  /\ ~HasOverlappingEntry(h, r)
  /\ InsertEntry(e, status, "range", h, r.in, r.out)
  /\ MemoryStep

(* Review: the route looks at the status and the store sets the new one.    *)
\* Mutant: a decision may be taken again.
ReviewableAgain(e, next) ==
  IF next = "submitted" THEN entry[e].status = "completed"
                        ELSE entry[e].status \in {"submitted", "approved", "rejected"}

Reviewable(e, next) ==
  IF next = "submitted" THEN entry[e].status = "completed"
                        ELSE entry[e].status = "submitted"

ReviewRead(p, e, next) ==
  /\ Reviewable(e, next)
  /\ StartPunch(p, [kind |-> "review", entry |-> e, status |-> next])

ReviewWrite(p) ==
  /\ punch[p].kind = "review"
  /\ entry' = [entry EXCEPT ![punch[p].entry].status = punch[p].status]
  /\ EndPunch(p)

\* A request that fails, or whose replica dies, between its two steps.
DropPunch(p) ==
  /\ punch[p] # NoPunch
  /\ EndPunch(p)
  /\ UNCHANGED entry

TimePasses ==
  /\ now < MaxTime
  /\ now' = now + 1
  /\ UNCHANGED <<store, entry, punch, collided>>

TimeNext ==
  \/ \E p \in Punches :
       \/ ClockInRead(p) \/ ClockOutWrite(p) \/ ReviewWrite(p) \/ DropPunch(p)
       \/ \E e \in Entries :
            \/ ClockOutRead(p, e) \/ RangeInsert(p, e)
            \/ \E h \in Halls : ClockInInsert(p, e, h)
            \/ \E next \in {"submitted", "approved", "rejected"} : ReviewRead(p, e, next)
       \/ \E h \in Halls, r \in ManualRanges, s \in {"completed", "submitted"} :
            RangeRead(p, h, r, s)
  \/ \E e \in Entries :
       \/ ClockOutMemory(e)
       \/ \E h \in Halls :
            \/ ClockInMemory(e, h)
            \/ \E r \in ManualRanges, s \in {"completed", "submitted"} : RangeMemory(e, h, r, s)
  \/ TimePasses

TimeSpec == TimeInit /\ [][TimeNext]_timeVars

-----------------------------------------------------------------------------
(* What must hold. *)

TimeTypeOK ==
  /\ now \in 0..MaxTime
  /\ entry \in [Entries ->
       [status : {"none", "active", "completed", "submitted", "approved", "rejected"},
        source : {"none", "clock", "range"}, local : Halls \cup {"none"},
        in : 0..MaxTime, out : 0..MaxTime, createdAt : 0..MaxTime]]
  /\ \A e \in LiveEntries : entry[e].in <= entry[e].out
  /\ collided \in BOOLEAN

CountedEntry(e) == entry[e].status \in {"completed", "submitted", "approved"}

\* The hours of two counted entries of a worker overlap only where no handler
\* looks: a clocked entry and a range entered for another local, two ranges
\* entered for two locals, or, within one local, a range that was already there
\* when the worker clocked in (createManualEntry lists one local,
\* drizzle-adapter.ts:526; clocking in looks for no range, :415).  Two clocked
\* entries never overlap, whatever their locals, and the worker is clocked in
\* once (getActiveEntry is of the union, :396).  In Postgres as long as no two
\* requests of the worker were in flight together; in the memory store only two
\* reviews can be.
NoHourTwice ==
  ~collided =>
    \A e, f \in LiveEntries : e # f =>
      /\ ~(entry[e].status = "active" /\ entry[f].status = "active")
      /\ CountedEntry(e) /\ CountedEntry(f) /\ RangesOverlap(entry[e], entry[f]) =>
           \/ /\ entry[e].local # entry[f].local
              /\ "range" \in {entry[e].source, entry[f].source}
           \/ \E x, y \in {e, f} :
                /\ entry[x].source = "clock" /\ entry[y].source = "range"
                /\ entry[y].createdAt <= entry[x].in

\* What was decided stays: an approved or rejected entry keeps its status and
\* its hours, unless two requests on it were in flight together.
DecisionsStand ==
  [][ ~collided' =>
        \A e \in Entries : entry[e].status \in {"approved", "rejected"} =>
          entry'[e] = entry[e] ]_timeVars
=============================================================================
