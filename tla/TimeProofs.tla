----------------------------- MODULE TimeProofs -----------------------------
(***************************************************************************)
(* What holds of a worker's time entries for any number of entries and     *)
(* requests and any length of time, in both stores, of the balances of time*)
(* off for any number of requests, handlers and hours, of recurring shifts *)
(* for any rule and windows, and of the split of hours for any thresholds. *)
(***************************************************************************)
EXTENDS TimeEntries, TimeOff, ShiftSeries, OvertimeSplit, SumProofs, FiniteSetTheorems,
        TLAPS

Statuses == {"none", "active", "completed", "submitted", "approved", "rejected"}
EntryRows == [status : Statuses, source : {"none", "clock", "range"},
              local : Halls \cup {"none"}, in : Nat, out : Nat, createdAt : Nat]

PunchShape(m) ==
  /\ m.kind \in {"none", "clock-in", "clock-out", "range", "review"}
  /\ m.kind = "none" <=> m = NoPunch
  /\ m.kind = "clock-out" => m.entry \in Entries
  /\ m.kind = "range" => /\ m.local \in Halls /\ m.range \in ManualRanges
                         /\ m.status \in {"completed", "submitted"}
  /\ m.kind = "review" => /\ m.entry \in Entries
                          /\ m.status \in {"submitted", "approved", "rejected"}

TimeShape ==
  /\ now \in Nat
  /\ entry \in [Entries -> EntryRows]
  /\ DOMAIN punch = Punches
  /\ \A p \in Punches : PunchShape(punch[p])
  /\ collided \in BOOLEAN

ClockRow(x) == x.status # "none" /\ x.source = "clock"
RangeRow(x) == x.status \notin {"none", "rejected"} /\ x.source = "range"

SoundRow(x) ==
  /\ x.status = "active" => x.source = "clock"
  /\ x.status # "none" => x.source \in {"clock", "range"}
  /\ ClockRow(x) => x.in <= x.out /\ x.out <= now
  /\ x.createdAt <= now

(* Two rows of the worker: clocked time lies one after the other, what is
   active now last; ranges of one local lie apart; and a range entered after
   the worker clocked in lies apart from that clocked time. *)
Apart(x, y) ==
  /\ ~(x.status = "active" /\ y.status = "active")
  /\ ClockRow(x) /\ ClockRow(y) /\ y.status = "active" => x.out <= y.in
  /\ ClockRow(x) /\ ClockRow(y) /\ x.status # "active" /\ y.status # "active"
       => ~RangesOverlap(x, y)
  /\ RangeRow(x) /\ RangeRow(y) /\ x.local = y.local => ~RangesOverlap(x, y)
  /\ ClockRow(x) /\ x.status # "rejected" /\ RangeRow(y) /\ x.local = y.local =>
       \/ y.createdAt <= x.in
       \/ x.status = "active" /\ y.out <= x.in
       \/ x.status # "active" /\ ~RangesOverlap(x, y)

RowsInv ==
  /\ \A e \in Entries : SoundRow(entry[e])
  /\ \A e, f \in Entries : e # f => Apart(entry[e], entry[f])

(* What the request in flight has read is still so. *)
StillSo(m) ==
  /\ m.kind \notin {"none", "review"} => store = "postgres"
  /\ m.kind = "clock-in" => \A e \in Entries : entry[e].status # "active"
  /\ m.kind = "clock-out" => entry[m.entry].status = "active"
  /\ m.kind = "range" => ~HasOverlappingEntry(m.local, m.range)
  /\ m.kind = "review" => Reviewable(m.entry, m.status)

PunchInv ==
  /\ \A p, q \in Punches : punch[p] # NoPunch /\ punch[q] # NoPunch => p = q
  /\ \A p \in Punches : StillSo(punch[p])

TimeInv == TimeShape /\ (~collided => RowsInv /\ PunchInv)

LEMMA TimeInvInit == TimeInit => TimeInv
<1> SUFFICES ASSUME TimeInit
             PROVE  TimeInv
  OBVIOUS
<1> USE DEF TimeInit
<1>1. TimeShape
  BY DEF TimeShape, NoEntry, NoPunch, EntryRows, Statuses, PunchShape
<1>2. RowsInv
  BY DEF RowsInv, SoundRow, Apart, ClockRow, RangeRow, NoEntry
<1>3. PunchInv
  BY DEF PunchInv, StillSo, NoPunch
<1>4. QED
  BY <1>1, <1>2, <1>3 DEF TimeInv

(* One row changes to one that is sound and apart from the others. *)
LEMMA RowChanges ==
  ASSUME TimeShape, RowsInv, NEW e \in Entries, NEW row \in EntryRows,
         entry' = [entry EXCEPT ![e] = row], now' = now, SoundRow(row),
         \A f \in Entries \ {e} : Apart(row, entry[f]) /\ Apart(entry[f], row)
  PROVE  RowsInv' /\ entry' \in [Entries -> EntryRows]
<1>1. entry \in [Entries -> EntryRows]
  BY DEF TimeShape
<1>2. entry'[e] = row /\ \A f \in Entries \ {e} : entry'[f] = entry[f]
  BY <1>1
<1>3. \A f \in Entries : SoundRow(entry[f])'
  BY <1>2 DEF RowsInv, SoundRow
<1>4. \A f, g \in Entries : f # g => Apart(entry[f], entry[g])'
  <2>1. ASSUME NEW f \in Entries, NEW g \in Entries, f # g
        PROVE  Apart(entry'[f], entry'[g])
    BY <1>2, <2>1 DEF RowsInv
  <2>2. QED
    BY <2>1 DEF Apart, ClockRow, RangeRow, RangesOverlap
<1>5. QED
  BY <1>1, <1>3, <1>4 DEF RowsInv

LEMMA ClockedIn ==
  ASSUME TimeShape, RowsInv, NEW e \in Entries, NEW h \in Halls,
         InsertEntry(e, "active", "clock", h, now, now),
         now' = now, \A f \in Entries : entry[f].status # "active"
  PROVE  RowsInv' /\ entry' \in [Entries -> EntryRows]
<1> DEFINE row == [status |-> "active", source |-> "clock", local |-> h,
                   in |-> now, out |-> now, createdAt |-> now]
<1>1. row \in EntryRows /\ entry' = [entry EXCEPT ![e] = row]
  BY DEF InsertEntry, EntryRows, Statuses, TimeShape
<1>2. SoundRow(row)
  BY DEF SoundRow, TimeShape
<1>3. ASSUME NEW f \in Entries \ {e}
      PROVE  Apart(row, entry[f]) /\ Apart(entry[f], row)
  BY DEF Apart, ClockRow, RangeRow, RowsInv, SoundRow
<1> HIDE DEF row
<1>4. QED
  BY <1>1, <1>2, <1>3, RowChanges

LEMMA ClockedOut ==
  ASSUME TimeShape, RowsInv, NEW e \in Entries, entry' = ClosedEntry(e),
         now' = now, entry[e].status = "active"
  PROVE  RowsInv' /\ entry' \in [Entries -> EntryRows]
<1> DEFINE row == [entry[e] EXCEPT !.status = "completed", !.out = now]
<1>1. entry \in [Entries -> EntryRows] /\ now \in Nat
  BY DEF TimeShape
<1>2. entry' = [entry EXCEPT ![e] = row]
  BY <1>1 DEF ClosedEntry
<1>3. /\ row \in EntryRows /\ row.status = "completed" /\ row.out = now
      /\ row.source = entry[e].source /\ row.in = entry[e].in
      /\ row.local = entry[e].local /\ row.createdAt = entry[e].createdAt
  BY <1>1 DEF EntryRows, Statuses
<1> HIDE DEF row
<1>4. SoundRow(row)
  <2>1. SoundRow(entry[e]) /\ entry[e].in \in Nat /\ entry[e].out \in Nat
    BY <1>1 DEF RowsInv, EntryRows
  <2>2. QED
    BY <1>1, <1>3, <2>1 DEF SoundRow, ClockRow
<1>5. ASSUME NEW f \in Entries \ {e}
      PROVE  Apart(row, entry[f]) /\ Apart(entry[f], row)
  <2>1. /\ entry[e].in \in Nat /\ entry[f].in \in Nat /\ entry[f].out \in Nat
        /\ Apart(entry[f], entry[e]) /\ Apart(entry[e], entry[f])
        /\ SoundRow(entry[e]) /\ SoundRow(entry[f])
    BY <1>1 DEF RowsInv, EntryRows
  <2>2. ClockRow(entry[e]) /\ entry[f].status # "active"
    BY <2>1 DEF Apart, SoundRow, ClockRow
  <2>3. ClockRow(entry[f]) => ~RangesOverlap(row, entry[f]) /\ ~RangesOverlap(entry[f], row)
    BY <1>3, <2>1, <2>2 DEF Apart, RangesOverlap
  <2>4. ~RangeRow(row)
    BY <1>3, <2>2 DEF RangeRow, ClockRow
  <2>5. RangeRow(entry[f]) /\ entry[f].local = row.local =>
          entry[f].createdAt <= row.in \/ ~RangesOverlap(row, entry[f])
    BY <1>1, <1>3, <2>1, <2>2 DEF Apart, RangesOverlap
  <2>6. QED
    BY <1>3, <2>2, <2>3, <2>4, <2>5 DEF Apart
<1>6. QED
  BY <1>2, <1>3, <1>4, <1>5, RowChanges

LEMMA RangeEntered ==
  ASSUME TimeShape, RowsInv, NEW e \in Entries, NEW h \in Halls, NEW r \in ManualRanges,
         NEW status \in {"completed", "submitted"},
         InsertEntry(e, status, "range", h, r.in, r.out), now' = now,
         ~HasOverlappingEntry(h, r)
  PROVE  RowsInv' /\ entry' \in [Entries -> EntryRows]
<1> DEFINE row == [status |-> status, source |-> "range", local |-> h,
                   in |-> r.in, out |-> r.out, createdAt |-> now]
<1>1. r.in \in Nat /\ r.out \in Nat /\ r.in < r.out
  BY DEF ManualRanges
<1>2. row \in EntryRows /\ entry' = [entry EXCEPT ![e] = row]
  BY <1>1 DEF InsertEntry, EntryRows, Statuses, TimeShape
<1>3. /\ SoundRow(row) /\ ~ClockRow(row) /\ row.local = h
      /\ row.status # "active" /\ row.in = r.in /\ row.out = r.out
  BY DEF SoundRow, ClockRow, TimeShape
<1> HIDE DEF row
<1>4. ASSUME NEW f \in Entries \ {e}
      PROVE  Apart(row, entry[f]) /\ Apart(entry[f], row)
  <2>1. SoundRow(entry[f]) /\ entry[f].in \in Nat /\ entry[f].out \in Nat
    BY DEF RowsInv, TimeShape, EntryRows
  <2>2. ASSUME entry[f].local = h, entry[f].status \notin {"none", "rejected", "active"}
        PROVE  ~RangesOverlap(entry[f], row) /\ ~RangesOverlap(row, entry[f])
    <3>1. f \in LiveEntries /\ ~RangesOverlap(entry[f], r)
      BY <2>2 DEF HasOverlappingEntry, LiveEntries
    <3>2. QED
      BY <1>3, <3>1 DEF RangesOverlap
  <2>3. ASSUME entry[f].local = h, entry[f].status = "active"
        PROVE  row.out <= entry[f].in
    <3>1. f \in LiveEntries /\ ~RangesOverlap([in |-> entry[f].in, out |-> r.out], r)
      BY <2>3 DEF HasOverlappingEntry, LiveEntries
    <3>2. QED
      BY <1>1, <1>3, <2>1, <3>1 DEF RangesOverlap
  <2>4. QED
    BY <1>3, <2>1, <2>2, <2>3 DEF Apart, ClockRow, RangeRow, SoundRow
<1>5. QED
  BY <1>2, <1>3, <1>4, RowChanges

LEMMA RowReviewed ==
  ASSUME TimeShape, RowsInv, NEW e \in Entries, now' = now,
         NEW status \in {"submitted", "approved", "rejected"},
         entry' = [entry EXCEPT ![e].status = status], Reviewable(e, status)
  PROVE  RowsInv' /\ entry' \in [Entries -> EntryRows]
<1> DEFINE row == [entry[e] EXCEPT !.status = status]
<1>1. entry \in [Entries -> EntryRows]
  BY DEF TimeShape
<1>2. entry' = [entry EXCEPT ![e] = row]
  BY <1>1
<1>3. /\ row \in EntryRows /\ row.status = status
      /\ row.source = entry[e].source /\ row.in = entry[e].in /\ row.out = entry[e].out
      /\ row.local = entry[e].local /\ row.createdAt = entry[e].createdAt
  BY <1>1 DEF EntryRows, Statuses
<1>4. entry[e].status \in {"completed", "submitted"}
  BY DEF Reviewable
<1> HIDE DEF row
<1>5. SoundRow(row)
  BY <1>3, <1>4 DEF RowsInv, SoundRow, ClockRow
<1>6. ASSUME NEW f \in Entries \ {e}
      PROVE  Apart(row, entry[f]) /\ Apart(entry[f], row)
  <2>1. Apart(entry[e], entry[f]) /\ Apart(entry[f], entry[e])
    BY DEF RowsInv
  <2>2. QED
    BY <1>3, <1>4, <2>1 DEF Apart, ClockRow, RangeRow, RangesOverlap
<1>7. QED
  BY <1>2, <1>3, <1>5, <1>6, RowChanges

(* The rows keep their shape whatever happened before. *)
LEMMA RowsKeepShape ==
  ASSUME TimeShape, NEW e \in Entries,
         \/ \E h \in Halls : InsertEntry(e, "active", "clock", h, now, now)
         \/ entry' = ClosedEntry(e)
         \/ \E h \in Halls, r \in ManualRanges, status \in {"completed", "submitted"} :
              InsertEntry(e, status, "range", h, r.in, r.out)
         \/ \E status \in {"submitted", "approved", "rejected"} :
              entry' = [entry EXCEPT ![e].status = status]
  PROVE  entry' \in [Entries -> EntryRows]
<1>1. entry \in [Entries -> EntryRows] /\ entry[e] \in EntryRows /\ now \in Nat
  BY DEF TimeShape
<1>2. CASE \E h \in Halls : InsertEntry(e, "active", "clock", h, now, now)
  BY <1>1, <1>2 DEF InsertEntry, EntryRows, Statuses
<1>3. CASE entry' = ClosedEntry(e)
  <2>1. entry' = [entry EXCEPT ![e] = [entry[e] EXCEPT !.status = "completed", !.out = now]]
    BY <1>1, <1>3 DEF ClosedEntry
  <2>2. [entry[e] EXCEPT !.status = "completed", !.out = now] \in EntryRows
    BY <1>1 DEF EntryRows, Statuses
  <2>3. QED
    BY <1>1, <2>1, <2>2
<1>4. ASSUME NEW h \in Halls, NEW r \in ManualRanges,
             NEW status \in {"completed", "submitted"},
             InsertEntry(e, status, "range", h, r.in, r.out)
      PROVE  entry' \in [Entries -> EntryRows]
  <2>1. r.in \in Nat /\ r.out \in Nat
    BY DEF ManualRanges
  <2>2. [status |-> status, source |-> "range", local |-> h, in |-> r.in, out |-> r.out,
         createdAt |-> now] \in EntryRows
    BY <1>1, <2>1 DEF EntryRows, Statuses
  <2>3. QED
    BY <1>1, <1>4, <2>2 DEF InsertEntry
<1>5. ASSUME NEW status \in {"submitted", "approved", "rejected"},
             entry' = [entry EXCEPT ![e].status = status]
      PROVE  entry' \in [Entries -> EntryRows]
  <2>1. [entry[e] EXCEPT !.status = status] \in EntryRows
    BY <1>1 DEF EntryRows, Statuses
  <2>2. QED
    BY <1>1, <1>5, <2>1
<1>6. QED
  BY <1>2, <1>3, <1>4, <1>5

(* A request begins: it is alone, or the history says so. *)
LEMMA Started ==
  ASSUME TimeInv, NEW p \in Punches, NEW m, PunchShape(m), StartPunch(p, m),
         ~collided => StillSo(m)
  PROVE  TimeInv'
<1>1. /\ punch' = [punch EXCEPT ![p] = m] /\ UNCHANGED <<store, now, entry>>
      /\ collided' = (collided \/ PunchInFlight(Punches))
  BY DEF StartPunch
<1>2. /\ DOMAIN punch' = Punches /\ punch'[p] = m
      /\ \A q \in Punches \ {p} : punch'[q] = punch[q]
  BY <1>1 DEF TimeInv, TimeShape
<1>3. TimeShape'
  <2>1. ASSUME NEW q \in Punches
        PROVE  PunchShape(punch'[q])
    BY <1>2 DEF TimeInv, TimeShape
  <2>2. collided' \in BOOLEAN
    BY <1>1 DEF TimeInv, TimeShape, PunchInFlight
  <2>3. QED
    BY <1>1, <1>2, <2>1, <2>2 DEF TimeInv, TimeShape, PunchShape, NoPunch
<1>4. ASSUME ~collided'
      PROVE  RowsInv' /\ PunchInv'
  <2>1. ~collided /\ \A q \in Punches : punch[q] = NoPunch
    BY <1>1, <1>4 DEF PunchInFlight
  <2>2. RowsInv'
    BY <1>1, <2>1 DEF TimeInv, RowsInv, SoundRow
  <2>3. StillSo(m)
    BY <2>1
  <2>4. \A q \in Punches : punch'[q] = m \/ punch'[q].kind = "none"
    BY <1>2, <2>1 DEF NoPunch
  <2>5. \A q \in Punches : StillSo(punch[q])'
    BY <1>1, <2>3, <2>4 DEF StillSo, Reviewable, HasOverlappingEntry, LiveEntries
  <2>6. QED
    BY <1>2, <2>1, <2>2, <2>5 DEF PunchInv
<1>5. QED
  BY <1>3, <1>4 DEF TimeInv

(* A request ends: it was alone, or the history says so. *)
LEMMA Ended ==
  ASSUME TimeInv, NEW p \in Punches, EndPunch(p),
         entry' \in [Entries -> EntryRows],
         ~collided => RowsInv'
  PROVE  TimeInv'
<1>1. /\ punch' = [punch EXCEPT ![p] = NoPunch] /\ UNCHANGED <<store, now>>
      /\ collided' = (collided \/ PunchInFlight(Punches \ {p}))
  BY DEF EndPunch
<1>2. /\ DOMAIN punch' = Punches /\ punch'[p] = NoPunch
      /\ \A q \in Punches \ {p} : punch'[q] = punch[q]
  BY <1>1 DEF TimeInv, TimeShape
<1>3. TimeShape'
  <2>1. ASSUME NEW q \in Punches
        PROVE  PunchShape(punch'[q])
    BY <1>2 DEF TimeInv, TimeShape, PunchShape, NoPunch
  <2>2. collided' \in BOOLEAN
    BY <1>1 DEF TimeInv, TimeShape, PunchInFlight
  <2>3. QED
    BY <1>1, <1>2, <2>1, <2>2 DEF TimeInv, TimeShape, PunchShape, NoPunch
<1>4. ASSUME ~collided'
      PROVE  RowsInv' /\ PunchInv'
  <2>1. ~collided /\ \A q \in Punches : punch'[q] = NoPunch
    BY <1>1, <1>2, <1>4 DEF PunchInFlight
  <2>2. \A q \in Punches : StillSo(punch[q])'
    BY <2>1 DEF StillSo, NoPunch
  <2>3. QED
    BY <2>1, <2>2 DEF PunchInv
<1>5. QED
  BY <1>3, <1>4 DEF TimeInv

(* In memory a row changes beside a review under way, of another row. *)
LEMMA InMemory ==
  ASSUME TimeInv, MemoryStep, store = "memory", NEW e \in Entries,
         entry' \in [Entries -> EntryRows],
         entry[e].status \in {"none", "active"},
         \A f \in Entries \ {e} : entry'[f] = entry[f],
         ~collided => RowsInv'
  PROVE  TimeInv'
<1>1. UNCHANGED <<store, now, punch, collided>>
  BY DEF MemoryStep
<1>2. TimeShape'
  BY <1>1 DEF TimeInv, TimeShape, PunchShape, NoPunch
<1>3. ASSUME ~collided
      PROVE  PunchInv'
  <2>1. PunchInv
    BY <1>3 DEF TimeInv
  <2>2. ASSUME NEW p \in Punches
        PROVE  StillSo(punch[p])'
    <3>1. punch[p].kind \in {"none", "review"} /\ StillSo(punch[p]) /\ punch'[p] = punch[p]
      BY <1>1, <2>1 DEF PunchInv, StillSo
    <3>2. CASE punch[p].kind = "none"
      BY <3>1, <3>2 DEF StillSo
    <3>3. CASE punch[p].kind = "review"
      <4>1. punch[p].entry \in Entries /\ Reviewable(punch[p].entry, punch[p].status)
        BY <3>1, <3>3 DEF StillSo, TimeInv, TimeShape, PunchShape
      <4>2. punch[p].entry # e
        BY <4>1 DEF Reviewable
      <4>3. entry'[punch[p].entry] = entry[punch[p].entry]
        BY <4>1, <4>2
      <4>4. QED
        BY <3>1, <3>3, <4>1, <4>3 DEF StillSo, Reviewable
    <3>4. QED
      BY <3>1, <3>2, <3>3
  <2>3. QED
    BY <1>1, <2>1, <2>2 DEF PunchInv
<1>4. QED
  BY <1>1, <1>2, <1>3 DEF TimeInv

LEMMA ClockingKeeps ==
  ASSUME TimeInv, NEW p \in Punches,
         \/ ClockInRead(p) \/ ClockOutWrite(p)
         \/ \E e \in Entries : ClockOutRead(p, e) \/ \E h \in Halls : ClockInInsert(p, e, h)
  PROVE  TimeInv'
<1>1. CASE ClockInRead(p)
  <2> DEFINE m == [kind |-> "clock-in"]
  <2>1. PunchShape(m)
    BY DEF PunchShape, NoPunch
  <2>2. StillSo(m)
    BY <1>1 DEF StillSo, ClockInRead, ActiveEntries, LiveEntries
  <2>3. StartPunch(p, m)
    BY <1>1 DEF ClockInRead
  <2> HIDE DEF m
  <2>4. QED
    BY <2>1, <2>2, <2>3, Started
<1>2. ASSUME NEW e \in Entries, NEW h \in Halls, ClockInInsert(p, e, h)
      PROVE  TimeInv'
  <2>1. /\ punch[p].kind = "clock-in" /\ InsertEntry(e, "active", "clock", h, now, now)
        /\ EndPunch(p) /\ now' = now
    BY <1>2 DEF ClockInInsert, EndPunch
  <2>2. ~collided => RowsInv'
    BY <2>1, ClockedIn DEF TimeInv, PunchInv, StillSo
  <2>3. entry' \in [Entries -> EntryRows]
    BY <2>1, RowsKeepShape DEF TimeInv
  <2>4. QED
    BY <2>1, <2>2, <2>3, Ended
<1>3. ASSUME NEW e \in Entries, ClockOutRead(p, e)
      PROVE  TimeInv'
  <2> DEFINE m == [kind |-> "clock-out", entry |-> e]
  <2>1. PunchShape(m)
    BY DEF PunchShape, NoPunch
  <2>2. StillSo(m)
    BY <1>3 DEF StillSo, ClockOutRead
  <2>3. StartPunch(p, m)
    BY <1>3 DEF ClockOutRead
  <2> HIDE DEF m
  <2>4. QED
    BY <2>1, <2>2, <2>3, Started
<1>4. CASE ClockOutWrite(p)
  <2>1. /\ punch[p].kind = "clock-out" /\ entry' = ClosedEntry(punch[p].entry)
        /\ EndPunch(p) /\ now' = now /\ punch[p].entry \in Entries
    BY <1>4 DEF ClockOutWrite, EndPunch, TimeInv, TimeShape, PunchShape
  <2>2. ~collided => RowsInv'
    BY <2>1, ClockedOut DEF TimeInv, PunchInv, StillSo
  <2>3. entry' \in [Entries -> EntryRows]
    BY <2>1, RowsKeepShape DEF TimeInv
  <2>4. QED
    BY <2>1, <2>2, <2>3, Ended
<1>5. QED
  BY <1>1, <1>2, <1>3, <1>4

LEMMA RangesKeep ==
  ASSUME TimeInv, NEW p \in Punches,
         \/ \E e \in Entries : RangeInsert(p, e)
         \/ \E h \in Halls, r \in ManualRanges, s \in {"completed", "submitted"} :
              RangeRead(p, h, r, s)
  PROVE  TimeInv'
<1>1. ASSUME NEW h \in Halls, NEW r \in ManualRanges,
             NEW status \in {"completed", "submitted"}, RangeRead(p, h, r, status)
      PROVE  TimeInv'
  <2> DEFINE m == [kind |-> "range", local |-> h, range |-> r, status |-> status]
  <2>1. PunchShape(m)
    BY DEF PunchShape, NoPunch
  <2>2. StillSo(m)
    BY <1>1 DEF StillSo, RangeRead
  <2>3. StartPunch(p, m)
    BY <1>1 DEF RangeRead
  <2> HIDE DEF m
  <2>4. QED
    BY <2>1, <2>2, <2>3, Started
<1>2. ASSUME NEW e \in Entries, RangeInsert(p, e)
      PROVE  TimeInv'
  <2>1. /\ punch[p].kind = "range"
        /\ InsertEntry(e, punch[p].status, "range", punch[p].local,
                       punch[p].range.in, punch[p].range.out)
        /\ EndPunch(p) /\ now' = now
        /\ punch[p].local \in Halls
        /\ punch[p].range \in ManualRanges /\ punch[p].status \in {"completed", "submitted"}
    BY <1>2 DEF RangeInsert, EndPunch, TimeInv, TimeShape, PunchShape
  <2>2. ~collided => RowsInv'
    <3>1. ASSUME ~collided
          PROVE  ~HasOverlappingEntry(punch[p].local, punch[p].range)
      BY <2>1, <3>1 DEF TimeInv, PunchInv, StillSo
    <3>2. QED
      BY <2>1, <3>1, RangeEntered DEF TimeInv
  <2>3. entry' \in [Entries -> EntryRows]
    BY <2>1, RowsKeepShape DEF TimeInv
  <2>4. QED
    BY <2>1, <2>2, <2>3, Ended
<1>3. QED
  BY <1>1, <1>2

LEMMA ReviewsKeep ==
  ASSUME TimeInv, NEW p \in Punches,
         \/ ReviewWrite(p)
         \/ \E e \in Entries, next \in {"submitted", "approved", "rejected"} :
              ReviewRead(p, e, next)
  PROVE  TimeInv'
<1>1. ASSUME NEW e \in Entries, NEW next \in {"submitted", "approved", "rejected"},
             ReviewRead(p, e, next)
      PROVE  TimeInv'
  <2> DEFINE m == [kind |-> "review", entry |-> e, status |-> next]
  <2>1. PunchShape(m)
    BY DEF PunchShape, NoPunch
  <2>2. StillSo(m)
    BY <1>1 DEF StillSo, ReviewRead
  <2>3. StartPunch(p, m)
    BY <1>1 DEF ReviewRead
  <2> HIDE DEF m
  <2>4. QED
    BY <2>1, <2>2, <2>3, Started
<1>2. CASE ReviewWrite(p)
  <2>1. /\ punch[p].kind = "review" /\ EndPunch(p) /\ now' = now
        /\ entry' = [entry EXCEPT ![punch[p].entry].status = punch[p].status]
        /\ punch[p].entry \in Entries /\ punch[p].status \in {"submitted", "approved", "rejected"}
    BY <1>2 DEF ReviewWrite, EndPunch, TimeInv, TimeShape, PunchShape
  <2>2. ~collided => RowsInv'
    <3>1. ~collided => Reviewable(punch[p].entry, punch[p].status)
      BY <2>1 DEF TimeInv, PunchInv, StillSo
    <3>2. QED
      BY <2>1, <3>1, RowReviewed DEF TimeInv
  <2>3. entry' \in [Entries -> EntryRows]
    BY <2>1, RowsKeepShape DEF TimeInv
  <2>4. QED
    BY <2>1, <2>2, <2>3, Ended
<1>3. QED
  BY <1>1, <1>2

LEMMA MemoryKeeps ==
  ASSUME TimeInv, NEW e \in Entries,
         \/ ClockOutMemory(e)
         \/ \E h \in Halls : ClockInMemory(e, h)
         \/ \E h \in Halls, r \in ManualRanges, s \in {"completed", "submitted"} :
              RangeMemory(e, h, r, s)
  PROVE  TimeInv'
<1>1. /\ MemoryStep /\ store = "memory" /\ now' = now
      /\ entry[e].status \in {"none", "active"}
  BY DEF ClockInMemory, ClockOutMemory, RangeMemory, MemoryStep, InsertEntry
<1>2. entry' \in [Entries -> EntryRows]
  BY RowsKeepShape DEF ClockInMemory, ClockOutMemory, RangeMemory, TimeInv
<1>3. \A f \in Entries \ {e} : entry'[f] = entry[f]
  BY DEF ClockInMemory, ClockOutMemory, RangeMemory, ClosedEntry, InsertEntry, TimeInv, TimeShape
<1>4. ASSUME ~collided
      PROVE  RowsInv'
  <2>1. TimeShape /\ RowsInv
    BY <1>4 DEF TimeInv
  <2>2. ASSUME NEW h \in Halls, ClockInMemory(e, h)
        PROVE  RowsInv'
    BY <1>1, <2>1, <2>2, ClockedIn DEF ClockInMemory, ActiveEntries, LiveEntries
  <2>3. CASE ClockOutMemory(e)
    BY <1>1, <2>1, <2>3, ClockedOut DEF ClockOutMemory
  <2>4. ASSUME NEW h \in Halls, NEW r \in ManualRanges,
               NEW status \in {"completed", "submitted"}, RangeMemory(e, h, r, status)
        PROVE  RowsInv'
    BY <1>1, <2>1, <2>4, RangeEntered DEF RangeMemory
  <2>5. QED
    BY <2>2, <2>3, <2>4
<1>5. QED
  BY <1>1, <1>2, <1>3, <1>4, InMemory

LEMMA TimeInvStep == TimeInv /\ [TimeNext]_timeVars => TimeInv'
<1> SUFFICES ASSUME TimeInv, [TimeNext]_timeVars
             PROVE  TimeInv'
  OBVIOUS
<1>1. ASSUME NEW p \in Punches, DropPunch(p)
      PROVE  TimeInv'
  <2>1. EndPunch(p) /\ entry' = entry /\ now' = now
    BY <1>1 DEF DropPunch, EndPunch
  <2>2. entry' \in [Entries -> EntryRows] /\ (~collided => RowsInv')
    BY <2>1 DEF TimeInv, TimeShape, RowsInv, SoundRow
  <2>3. QED
    BY <2>1, <2>2, Ended
<1>2. CASE TimePasses
  <2>1. now' = now + 1 /\ UNCHANGED <<store, entry, punch, collided>>
    BY <1>2 DEF TimePasses
  <2>2. TimeShape'
    BY <2>1 DEF TimeInv, TimeShape, PunchShape, NoPunch
  <2>3. ~collided => RowsInv'
    <3>1. ASSUME RowsInv, NEW e \in Entries
          PROVE  SoundRow(entry[e])'
      <4>1. entry[e].out \in Nat /\ entry[e].createdAt \in Nat /\ now \in Nat
        BY DEF TimeInv, TimeShape, EntryRows
      <4>2. QED
        BY <2>1, <3>1, <4>1 DEF RowsInv, SoundRow, ClockRow
    <3>2. QED
      BY <2>1, <3>1 DEF TimeInv, RowsInv
  <2>4. ~collided => PunchInv'
    BY <2>1 DEF TimeInv, PunchInv, StillSo, Reviewable, HasOverlappingEntry, LiveEntries
  <2>5. QED
    BY <2>1, <2>2, <2>3, <2>4 DEF TimeInv
<1>3. CASE UNCHANGED timeVars
  BY <1>3 DEF timeVars, TimeInv, TimeShape, PunchShape, NoPunch, RowsInv, SoundRow, PunchInv,
              StillSo, Reviewable, HasOverlappingEntry, LiveEntries
<1>4. QED
  BY <1>1, <1>2, <1>3, ClockingKeeps, RangesKeep, ReviewsKeep, MemoryKeeps DEF TimeNext

LEMMA TimeInvHolds == TimeSpec => []TimeInv
BY TimeInvInit, TimeInvStep, PTL DEF TimeSpec

(* The hours of two counted entries overlap only across locals, or where the
   worker clocked in after the range was entered, for a worker whose requests
   follow one another, however many entries and locals there are and however
   long time goes on (needed.ts:41, drizzle-adapter.ts:415 and 526). *)
THEOREM HoursArePaidOnce == TimeSpec => []NoHourTwice
<1>1. TimeInv => NoHourTwice
  <2> SUFFICES ASSUME TimeInv, ~collided, NEW e \in LiveEntries, NEW f \in LiveEntries, e # f
               PROVE  /\ ~(entry[e].status = "active" /\ entry[f].status = "active")
                      /\ CountedEntry(e) /\ CountedEntry(f) /\ RangesOverlap(entry[e], entry[f]) =>
                           \/ /\ entry[e].local # entry[f].local
                              /\ "range" \in {entry[e].source, entry[f].source}
                           \/ \E x, y \in {e, f} :
                                /\ entry[x].source = "clock" /\ entry[y].source = "range"
                                /\ entry[y].createdAt <= entry[x].in
    BY DEF NoHourTwice
  <2>1. e \in Entries /\ f \in Entries /\ entry[e].status # "none" /\ entry[f].status # "none"
    BY DEF LiveEntries
  <2>2. /\ Apart(entry[e], entry[f]) /\ Apart(entry[f], entry[e])
        /\ SoundRow(entry[e]) /\ SoundRow(entry[f])
    BY <2>1 DEF TimeInv, RowsInv
  <2>3. ASSUME CountedEntry(e), CountedEntry(f), RangesOverlap(entry[e], entry[f])
        PROVE  \/ /\ entry[e].local # entry[f].local
                  /\ "range" \in {entry[e].source, entry[f].source}
               \/ \E x, y \in {e, f} :
                    /\ entry[x].source = "clock" /\ entry[y].source = "range"
                    /\ entry[y].createdAt <= entry[x].in
    <3>1. RangesOverlap(entry[f], entry[e])
      BY <2>3 DEF RangesOverlap
    <3>2. entry[e].source # "clock" \/ entry[f].source # "clock"
      BY <2>1, <2>2, <2>3 DEF Apart, ClockRow, CountedEntry
    <3>3. "range" \in {entry[e].source, entry[f].source}
      BY <2>1, <2>2, <3>2 DEF SoundRow
    <3>4. ASSUME entry[e].local = entry[f].local
          PROVE  \E x, y \in {e, f} :
                   /\ entry[x].source = "clock" /\ entry[y].source = "range"
                   /\ entry[y].createdAt <= entry[x].in
      <4>1. entry[e].source = "clock" \/ entry[f].source = "clock"
        BY <2>1, <2>2, <2>3, <3>4 DEF Apart, RangeRow, CountedEntry, SoundRow
      <4>2. CASE entry[e].source = "clock"
        <5>1. entry[f].source = "range"
          BY <2>1, <2>2, <3>2, <4>2 DEF SoundRow
        <5>2. entry[f].createdAt <= entry[e].in
          BY <2>1, <2>2, <2>3, <3>4, <4>2, <5>1 DEF Apart, ClockRow, RangeRow, CountedEntry
        <5>3. QED
          BY <4>2, <5>1, <5>2
      <4>3. CASE entry[f].source = "clock"
        <5>1. entry[e].source = "range"
          BY <2>1, <2>2, <3>2, <4>3 DEF SoundRow
        <5>2. entry[e].createdAt <= entry[f].in
          BY <2>1, <2>2, <2>3, <3>1, <3>4, <4>3, <5>1 DEF Apart, ClockRow, RangeRow, CountedEntry
        <5>3. QED
          BY <4>3, <5>1, <5>2
      <4>4. QED
        BY <4>1, <4>2, <4>3
    <3>5. QED
      BY <3>3, <3>4
  <2>4. QED
    BY <2>2, <2>3 DEF Apart
<1>2. QED
  BY TimeInvHolds, <1>1, PTL

(* A decided entry keeps its status and its hours, for any number of requests
   that do not overlap (api/time/entries/[id]/route.ts:61, bulk-approve/route.ts:40). *)
THEOREM DecidedEntriesStay == TimeSpec => DecisionsStand
<1>1. TimeInv /\ [TimeNext]_timeVars
        => [~collided' => \A e \in Entries : entry[e].status \in {"approved", "rejected"} =>
              entry'[e] = entry[e]]_timeVars
  <2> SUFFICES ASSUME TimeInv, TimeNext, ~collided',
                      NEW e \in Entries, entry[e].status \in {"approved", "rejected"}
               PROVE  entry'[e] = entry[e]
    BY DEF timeVars
  <2>1. ~collided
    BY DEF TimeNext, ClockInRead, ClockInInsert, ClockInMemory, ClockOutRead, ClockOutWrite,
           ClockOutMemory, RangeRead, RangeInsert, RangeMemory, ReviewRead, ReviewWrite,
           DropPunch, TimePasses, StartPunch, EndPunch, MemoryStep
  <2>2. TimeShape /\ PunchInv
    BY <2>1 DEF TimeInv
  <2>3. ASSUME NEW p \in Punches, ClockOutWrite(p) \/ ReviewWrite(p)
        PROVE  entry'[e] = entry[e]
    <3>1. punch[p].entry # e
      BY <2>2, <2>3 DEF ClockOutWrite, ReviewWrite, PunchInv, StillSo, Reviewable
    <3>2. QED
      BY <2>2, <2>3, <3>1 DEF ClockOutWrite, ReviewWrite, ClosedEntry, TimeShape
  <2>4. ASSUME NEW f \in Entries,
               \/ ClockOutMemory(f)
               \/ \E h \in Halls : ClockInMemory(f, h)
               \/ \E h \in Halls, r \in ManualRanges, s \in {"completed", "submitted"} :
                    RangeMemory(f, h, r, s)
               \/ \E p \in Punches : RangeInsert(p, f)
               \/ \E p \in Punches, h \in Halls : ClockInInsert(p, f, h)
        PROVE  entry'[e] = entry[e]
    <3>1. f # e
      BY <2>4 DEF ClockInMemory, ClockOutMemory, RangeMemory, ClockInInsert, RangeInsert,
                  InsertEntry
    <3>2. QED
      BY <2>2, <2>4, <3>1 DEF ClockInMemory, ClockOutMemory, RangeMemory, ClockInInsert,
                              RangeInsert, InsertEntry, ClosedEntry, TimeShape
  <2>5. QED
    BY <2>3, <2>4 DEF TimeNext, ClockInRead, ClockOutRead, RangeRead, ReviewRead, DropPunch,
                      TimePasses, StartPunch
<1>2. QED
  BY TimeInvHolds, <1>1, PTL DEF TimeSpec, DecisionsStand

-----------------------------------------------------------------------------
(* Time off. *)

OffRows == [status : {"none", "draft", "submitted", "approved", "rejected", "cancelled"},
            of : Accounts \cup {"none"}, hours : Nat]

ClerkShape(k) ==
  /\ k.step \in {"none", "store", "status", "read", "write"}
  /\ k.step = "none" <=> k = NoClerk
  /\ k.step \in {"store", "status"} =>
       /\ k.request \in Requests /\ request[k.request].of \in Accounts
       /\ k.next \in {"submitted", "approved", "rejected", "cancelled"}
  /\ k.step \in {"read", "write"} => k.of \in Accounts /\ k.hours \in Int
  /\ k.step = "write" => k.held \in Int

OffShape ==
  /\ request \in [Requests -> OffRows]
  /\ \A r \in Requests : request[r].status # "none" => request[r].of \in Accounts
  /\ balance \in [Accounts -> Seq(Int)]
  /\ due \in [Accounts -> Int]
  /\ DOMAIN clerk = Clerks
  /\ \A c \in Clerks : ClerkShape(clerk[c])
  /\ muddled \in BOOLEAN

Held(a) == IF balance[a] = <<>> THEN 0 ELSE balance[a][1]

(* What the handler still has to write is what makes the books balance. *)
Owes(k) ==
  /\ k.step \in {"store", "status"} => MayMove(k.request, k.next)
  /\ k.step = "status" => k.was = request[k.request].status
  /\ k.step = "read" =>
       due[k.of] = IF k.mode = "set" THEN k.hours ELSE Held(k.of) + k.hours
  /\ k.step = "write" =>
       /\ k.row = IF balance[k.of] = <<>> THEN 0 ELSE 1
       /\ k.row = 1 => k.held = Held(k.of)
       /\ due[k.of] = NewBalance(k)

OffSettled ==
  /\ \A a \in Accounts : Len(balance[a]) <= 1
  /\ \A c, d \in Clerks : clerk[c] # NoClerk /\ clerk[d] # NoClerk => c = d
  /\ \A c \in Clerks : Owes(clerk[c])
  /\ \A a \in Accounts :
       (\A c \in Clerks : ~(clerk[c].step \in {"read", "write"} /\ clerk[c].of = a))
         => due[a] = Held(a)

OffInv == OffShape /\ (~muddled => OffSettled)

LEMMA OffInvInit == OffInit => OffInv
<1> SUFFICES ASSUME OffInit
             PROVE  OffInv
  OBVIOUS
<1> USE DEF OffInit
<1>1. OffShape
  <2>1. [status |-> "none", of |-> "none", hours |-> 0] \in OffRows
    BY DEF OffRows
  <2>2. request \in [Requests -> OffRows] /\ \A r \in Requests : request[r].status = "none"
    BY <2>1
  <2>3. balance \in [Accounts -> Seq(Int)] /\ due \in [Accounts -> Int]
    OBVIOUS
  <2>4. DOMAIN clerk = Clerks /\ \A c \in Clerks : ClerkShape(clerk[c])
    BY DEF ClerkShape, NoClerk
  <2>5. QED
    BY <2>2, <2>3, <2>4 DEF OffShape
<1>2. OffSettled
  BY DEF OffSettled, Owes, Held, NoClerk
<1>3. QED
  BY <1>1, <1>2 DEF OffInv

(* A handler moves on: it was alone, or the history says so. *)
LEMMA OneClerkMoves ==
  ASSUME OffShape, NEW c \in Clerks, NEW k, ClerkShape(k), Occupy(c, k)
  PROVE  /\ DOMAIN clerk' = Clerks /\ clerk'[c] = k /\ muddled' \in BOOLEAN
         /\ \A d \in Clerks : ClerkShape(clerk'[d])
         /\ ~muddled' => /\ ~muddled
                         /\ \A d \in Clerks \ {c} : clerk[d] = NoClerk /\ clerk'[d] = NoClerk
<1>1. /\ clerk' = [clerk EXCEPT ![c] = k]
      /\ muddled' = (muddled \/ ClerksBusy(Clerks \ {c}))
  BY DEF Occupy
<1>2. /\ DOMAIN clerk' = Clerks /\ clerk'[c] = k
      /\ \A d \in Clerks \ {c} : clerk'[d] = clerk[d]
  BY <1>1 DEF OffShape
<1>3. muddled' \in BOOLEAN
  BY <1>1 DEF OffShape, ClerksBusy
<1>4. \A d \in Clerks : ClerkShape(clerk'[d])
  BY <1>2 DEF OffShape
<1>5. ASSUME ~muddled'
      PROVE  ~muddled /\ \A d \in Clerks \ {c} : clerk[d] = NoClerk
  BY <1>1, <1>5 DEF ClerksBusy
<1>6. QED
  BY <1>2, <1>3, <1>4, <1>5

LEMMA NewRequestKeeps ==
  ASSUME OffInv, NEW r \in Requests, NEW a \in Accounts, NEW h \in Hours \cup {0},
         NEW s \in {"draft", "submitted"}, CreateRequest(r, a, h, s)
  PROVE  OffInv'
<1> DEFINE row == [status |-> s, of |-> a, hours |-> h]
<1>1. /\ request[r].status = "none" /\ request' = [request EXCEPT ![r] = row]
      /\ UNCHANGED <<balance, clerk, credits, due, muddled>>
  BY DEF CreateRequest
<1>2. row \in OffRows
  BY HoursAssumption DEF OffRows
<1>3. /\ request' \in [Requests -> OffRows] /\ request'[r] = row
      /\ \A q \in Requests \ {r} : request'[q] = request[q]
  BY <1>1, <1>2 DEF OffInv, OffShape
<1>4. OffShape'
  <2>1. \A q \in Requests : request[q].of \in Accounts => request'[q].of \in Accounts
    BY <1>3
  <2>2. ASSUME NEW c \in Clerks
        PROVE  ClerkShape(clerk[c])'
    BY <1>1, <2>1 DEF OffInv, OffShape, ClerkShape, NoClerk
  <2>3. QED
    BY <1>1, <1>3, <2>2 DEF OffInv, OffShape
<1>5. ASSUME OffSettled
      PROVE  OffSettled'
  <2>1. ASSUME NEW c \in Clerks
        PROVE  Owes(clerk[c])'
    <3>1. Owes(clerk[c]) /\ ClerkShape(clerk[c]) /\ clerk'[c] = clerk[c]
      BY <1>1, <1>5 DEF OffSettled, OffInv, OffShape
    <3>2. ASSUME clerk[c].step \in {"store", "status"}
          PROVE  clerk[c].request \in Requests \ {r}
      BY <1>1, <3>1, <3>2 DEF Owes, MayMove, ClerkShape
    <3>3. QED
      BY <1>1, <1>3, <3>1, <3>2 DEF Owes, MayMove, Held, NewBalance
  <2>2. QED
    BY <1>1, <1>5, <2>1 DEF OffSettled, Held
<1>6. QED
  BY <1>1, <1>4, <1>5 DEF OffInv

LEMMA RequestReadsKeep ==
  ASSUME OffInv, NEW c \in Clerks,
         \/ StoreReads(c)
         \/ \E r \in Requests, next \in {"submitted", "approved", "rejected", "cancelled"} :
              RouteReads(c, r, next)
  PROVE  OffInv'
<1>1. PICK k : /\ ClerkShape(k) /\ Occupy(c, k) /\ k.step \in {"store", "status"}
               /\ k.step = "status" => k.was = request[k.request].status
               /\ ~muddled => MayMove(k.request, k.next)
  <2>1. CASE StoreReads(c)
    <3> DEFINE k == [step |-> "status", request |-> clerk[c].request, next |-> clerk[c].next,
                     was |-> request[clerk[c].request].status]
    <3>1. clerk[c].step = "store" /\ Occupy(c, k)
      BY <2>1 DEF StoreReads
    <3>2. ClerkShape(clerk[c])
      BY DEF OffInv, OffShape
    <3>3. ClerkShape(k)
      BY <3>1, <3>2 DEF ClerkShape, NoClerk
    <3>4. ~muddled => MayMove(clerk[c].request, clerk[c].next)
      BY <3>1 DEF OffInv, OffSettled, Owes
    <3>5. k.step = "status" /\ k.was = request[k.request].status
            /\ k.request = clerk[c].request /\ k.next = clerk[c].next
      OBVIOUS
    <3> HIDE DEF k
    <3>6. QED
      BY <3>1, <3>3, <3>4, <3>5
  <2>2. ASSUME NEW r \in Requests, NEW next \in {"submitted", "approved", "rejected", "cancelled"},
               RouteReads(c, r, next)
        PROVE  \E k : /\ ClerkShape(k) /\ Occupy(c, k) /\ k.step \in {"store", "status"}
                      /\ k.step = "status" => k.was = request[k.request].status
                      /\ ~muddled => MayMove(k.request, k.next)
    <3> DEFINE k == [step |-> "store", request |-> r, next |-> next]
    <3>1. Occupy(c, k) /\ MayMove(r, next) /\ request[r].of \in Accounts
      BY <2>2 DEF RouteReads, MayMove, OffInv, OffShape
    <3>2. ClerkShape(k)
      BY <3>1 DEF ClerkShape, NoClerk
    <3>3. k.step = "store" /\ k.request = r /\ k.next = next
      OBVIOUS
    <3> HIDE DEF k
    <3>4. QED
      BY <3>1, <3>2, <3>3
  <2>3. QED
    BY <2>1, <2>2
<1>2. UNCHANGED <<request, balance, due>> /\ clerk[c].step \in {"none", "store"}
  <2>1. NoClerk.step = "none"
    BY DEF NoClerk
  <2>2. QED
    BY <2>1 DEF StoreReads, RouteReads
<1>3. /\ DOMAIN clerk' = Clerks /\ clerk'[c] = k /\ muddled' \in BOOLEAN
      /\ \A d \in Clerks : ClerkShape(clerk'[d])
      /\ ~muddled' => /\ ~muddled
                      /\ \A d \in Clerks \ {c} : clerk[d] = NoClerk /\ clerk'[d] = NoClerk
  BY <1>1, OneClerkMoves DEF OffInv
<1>4. OffShape'
  BY <1>2, <1>3 DEF OffInv, OffShape, ClerkShape, NoClerk
<1>5. ASSUME ~muddled'
      PROVE  OffSettled'
  <2>1. OffSettled /\ \A d \in Clerks \ {c} : clerk'[d].step = "none" /\ clerk'[d] = NoClerk
    BY <1>3, <1>5 DEF OffInv, NoClerk
  <2>2. Owes(clerk[c])'
    BY <1>1, <1>2, <1>3, <1>5 DEF Owes, MayMove
  <2>3. \A d \in Clerks \ {c} : Owes(clerk[d])'
    BY <2>1 DEF Owes
  <2>4. \A a \in Accounts : due[a] = Held(a)
    BY <1>2, <1>3, <1>5, <2>1 DEF OffSettled, NoClerk
  <2>5. \A a \in Accounts : due'[a] = Held(a)'
    BY <1>2, <2>4 DEF Held
  <2>6. QED
    BY <1>2, <2>1, <2>2, <2>3, <2>5 DEF OffSettled
<1>6. QED
  BY <1>4, <1>5 DEF OffInv

(* A handler that sets a status writes `due` as the approval is owed. *)
LEMMA StatusKeeps ==
  ASSUME OffInv, NEW c \in Clerks, StatusWritten(c)
  PROVE  OffInv'
<1> DEFINE k == clerk[c]
           row == request[k.request]
           draws == k.next = "approved" /\ k.was # "approved" /\ row.hours > 0
           next == IF draws
                   THEN [step |-> "read", of |-> row.of, mode |-> "adjust", hours |-> -row.hours]
                   ELSE NoClerk
<1>1. /\ k.step = "status"
      /\ request' = [request EXCEPT ![k.request].status = k.next]
      /\ due' = [due EXCEPT ![row.of] =
                  @ + Drawn(row.status, row.hours) - Drawn(k.next, row.hours)]
      /\ Occupy(c, next) /\ UNCHANGED <<balance, credits>>
  BY DEF StatusWritten, Free
<1>2. /\ k.request \in Requests /\ row.of \in Accounts /\ row.hours \in Nat /\ row \in OffRows
      /\ k.next \in {"submitted", "approved", "rejected", "cancelled"}
  BY <1>1 DEF OffInv, OffShape, ClerkShape, OffRows
<1>3. ClerkShape(next)
  BY <1>2 DEF ClerkShape, NoClerk
<1>4. /\ request' \in [Requests -> OffRows] /\ request'[k.request].of = row.of
      /\ \A r \in Requests \ {k.request} : request'[r] = request[r]
  <2>1. /\ [row EXCEPT !.status = k.next] \in OffRows
        /\ [row EXCEPT !.status = k.next].of = row.of
    BY <1>2 DEF OffRows
  <2>2. request' = [request EXCEPT ![k.request] = [row EXCEPT !.status = k.next]]
    BY <1>1
  <2>3. QED
    BY <1>2, <2>1, <2>2 DEF OffInv, OffShape
<1>5. /\ due' \in [Accounts -> Int]
      /\ due'[row.of] = due[row.of] + Drawn(row.status, row.hours) - Drawn(k.next, row.hours)
      /\ \A a \in Accounts \ {row.of} : due'[a] = due[a]
  <2>1. due \in [Accounts -> Int] /\ Drawn(row.status, row.hours) \in Nat
          /\ Drawn(k.next, row.hours) \in Nat
    BY <1>2 DEF OffInv, OffShape, Drawn
  <2> DEFINE new == due[row.of] + Drawn(row.status, row.hours) - Drawn(k.next, row.hours)
  <2>2. new \in Int /\ due' = [due EXCEPT ![row.of] = new]
    BY <1>1, <1>2, <2>1, SMTT(20)
  <2> HIDE DEF row, new
  <2>3. /\ due' \in [Accounts -> Int] /\ due'[row.of] = new
        /\ \A a \in Accounts \ {row.of} : due'[a] = due[a]
    BY <1>2, <2>1, <2>2
  <2>4. QED
    BY <2>3 DEF new
<1>6. /\ DOMAIN clerk' = Clerks /\ clerk'[c] = next /\ muddled' \in BOOLEAN
      /\ \A d \in Clerks : ClerkShape(clerk'[d])
      /\ ~muddled' => /\ ~muddled
                      /\ \A d \in Clerks \ {c} : clerk[d] = NoClerk /\ clerk'[d] = NoClerk
  <2> HIDE DEF next
  <2>1. QED
    BY <1>1, <1>3, OneClerkMoves DEF OffInv
<1>7. OffShape'
  <2>1. \A r \in Requests : request'[r].of = request[r].of
    BY <1>4
  <2>2. ASSUME NEW d \in Clerks
        PROVE  ClerkShape(clerk[d])'
    BY <1>6, <2>1 DEF ClerkShape, NoClerk
  <2>3. \A r \in Requests : request'[r].status # "none" => request'[r].of \in Accounts
    BY <1>2, <1>4 DEF OffInv, OffShape
  <2>4. QED
    BY <1>1, <1>4, <1>5, <1>6, <2>2, <2>3 DEF OffInv, OffShape
<1>8. ASSUME ~muddled'
      PROVE  OffSettled'
  <2>1. OffSettled /\ \A d \in Clerks \ {c} : clerk'[d].step = "none" /\ clerk'[d] = NoClerk
    BY <1>6, <1>8 DEF OffInv, NoClerk
  <2>2. k.was = row.status /\ row.status \in {"draft", "submitted"}
    BY <1>1, <1>2, <2>1 DEF OffSettled, Owes, MayMove
  <2>3. \A a \in Accounts : due[a] = Held(a) /\ Held(a)' = Held(a)
    BY <1>1, <1>6, <1>8, <2>1 DEF OffSettled, NoClerk, Held
  <2>4. CASE draws
    <3>1. /\ clerk'[c].step = "read" /\ clerk'[c].of = row.of /\ clerk'[c].mode = "adjust"
          /\ clerk'[c].hours = -row.hours
      BY <1>6, <2>4
    <3>2. PICK a \in Accounts : a = row.of
      BY <1>2
    <3>3. due'[a] = Held(a)' + clerk'[c].hours
      <4>1. Drawn(row.status, row.hours) = 0 /\ Drawn(k.next, row.hours) = row.hours
        BY <2>2, <2>4 DEF Drawn
      <4>2. due[a] \in Int /\ due[a] = Held(a)'
        BY <2>3 DEF OffInv, OffShape
      <4> HIDE DEF row, k
      <4>3. QED
        BY <1>2, <1>5, <3>1, <3>2, <4>1, <4>2
    <3> HIDE DEF row, next
    <3>4. Owes(clerk[c])'
      BY <3>1, <3>2, <3>3 DEF Owes
    <3>5. QED
      BY <1>1, <1>5, <2>1, <2>3, <3>1, <3>4 DEF OffSettled, Owes
  <2>5. CASE ~draws
    <3>1. clerk'[c] = NoClerk /\ clerk'[c].step = "none"
      BY <1>6, <2>5 DEF NoClerk
    <3>2. due'[row.of] = due[row.of]
      BY <1>2, <1>5, <2>2, <2>5 DEF Drawn, OffInv, OffShape
    <3>3. QED
      BY <1>1, <1>2, <1>5, <2>1, <2>3, <3>1, <3>2 DEF OffSettled, Owes
  <2>6. QED
    BY <2>4, <2>5
<1>9. QED
  BY <1>7, <1>8 DEF OffInv

LEMMA CreditKeeps ==
  ASSUME OffInv, NEW c \in Clerks, NEW a \in Accounts, NEW h \in Hours,
         NEW mode \in {"set", "adjust"}, Credit(c, a, h, mode)
  PROVE  OffInv'
<1> DEFINE k == [step |-> "read", of |-> a, mode |-> mode, hours |-> h]
<1>1. /\ clerk[c] = NoClerk /\ Occupy(c, k) /\ UNCHANGED <<request, balance>>
      /\ due' = [due EXCEPT ![a] = IF mode = "set" THEN h ELSE @ + h]
      /\ h \in Int /\ due \in [Accounts -> Int]
  BY HoursAssumption DEF Credit, OffInv, OffShape
<1>2. /\ ClerkShape(k) /\ k.step = "read" /\ k.of = a /\ k.mode = mode /\ k.hours = h
  BY <1>1 DEF ClerkShape, NoClerk
<1> HIDE DEF k
<1>3. /\ due' \in [Accounts -> Int]
      /\ due'[a] = IF mode = "set" THEN h ELSE due[a] + h
      /\ \A b \in Accounts \ {a} : due'[b] = due[b]
  BY <1>1
<1>4. /\ DOMAIN clerk' = Clerks /\ clerk'[c] = k /\ muddled' \in BOOLEAN
      /\ \A d \in Clerks : ClerkShape(clerk'[d])
      /\ ~muddled' => /\ ~muddled
                      /\ \A d \in Clerks \ {c} : clerk[d] = NoClerk /\ clerk'[d] = NoClerk
  BY <1>1, <1>2, OneClerkMoves DEF OffInv
<1>5. OffShape'
  BY <1>1, <1>3, <1>4 DEF OffInv, OffShape, ClerkShape, NoClerk
<1>6. ASSUME ~muddled'
      PROVE  OffSettled'
  <2>1. OffSettled /\ \A d \in Clerks \ {c} : clerk'[d].step = "none" /\ clerk'[d] = NoClerk
    BY <1>4, <1>6 DEF OffInv, NoClerk
  <2>2. \A b \in Accounts : due[b] = Held(b) /\ Held(b)' = Held(b)
    BY <1>1, <1>4, <1>6, <2>1 DEF OffSettled, NoClerk, Held
  <2>3. Owes(clerk[c])'
    BY <1>2, <1>3, <1>4, <2>2 DEF Owes
  <2>4. QED
    BY <1>1, <1>2, <1>3, <1>4, <2>1, <2>2, <2>3 DEF OffSettled, Owes
<1>7. QED
  BY <1>5, <1>6 DEF OffInv

LEMMA BalanceReadKeeps ==
  ASSUME OffInv, NEW c \in Clerks, BalanceRead(c)
  PROVE  OffInv'
<1>1. /\ clerk[c].step = "read" /\ clerk[c].of \in Accounts /\ clerk[c].hours \in Int
      /\ UNCHANGED <<request, balance, due>> /\ balance \in [Accounts -> Seq(Int)]
  BY DEF BalanceRead, OffInv, OffShape, ClerkShape
<1>2. PICK a \in Accounts : a = clerk[c].of
  BY <1>1
<1>3. PICK row \in IF balance[a] = <<>> THEN {0} ELSE DOMAIN balance[a] :
        Occupy(c, [step |-> "write", of |-> a, mode |-> clerk[c].mode, hours |-> clerk[c].hours,
                   row |-> row, held |-> IF row = 0 THEN 0 ELSE balance[a][row]])
  BY <1>2 DEF BalanceRead
<1> DEFINE k == [step |-> "write", of |-> a, mode |-> clerk[c].mode, hours |-> clerk[c].hours,
                 row |-> row, held |-> IF row = 0 THEN 0 ELSE balance[a][row]]
<1>4. (IF row = 0 THEN 0 ELSE balance[a][row]) \in Int
  BY <1>1, <1>3
<1>5. ClerkShape(k)
  BY <1>1, <1>4 DEF ClerkShape, NoClerk
<1>6. /\ k.step = "write" /\ k.of = a /\ k.row = row /\ k.mode = clerk[c].mode
      /\ k.hours = clerk[c].hours /\ k.held = IF row = 0 THEN 0 ELSE balance[a][row]
  OBVIOUS
<1> HIDE DEF k
<1>7. /\ DOMAIN clerk' = Clerks /\ clerk'[c] = k /\ muddled' \in BOOLEAN
      /\ \A d \in Clerks : ClerkShape(clerk'[d])
      /\ ~muddled' => /\ ~muddled
                      /\ \A d \in Clerks \ {c} : clerk[d] = NoClerk /\ clerk'[d] = NoClerk
  BY <1>3, <1>5, OneClerkMoves DEF OffInv, k
<1>8. OffShape'
  BY <1>1, <1>7 DEF OffInv, OffShape, ClerkShape, NoClerk
<1>9. ASSUME ~muddled'
      PROVE  OffSettled'
  <2>1. OffSettled /\ \A d \in Clerks \ {c} : clerk'[d].step = "none" /\ clerk'[d] = NoClerk
    BY <1>7, <1>9 DEF OffInv, NoClerk
  <2>2. row = IF balance[a] = <<>> THEN 0 ELSE 1
    <3>1. Len(balance[a]) <= 1 /\ balance[a] \in Seq(Int)
      BY <1>1, <2>1 DEF OffSettled
    <3>2. QED
      BY <1>3, <3>1
  <2>3. due[a] = IF clerk[c].mode = "set" THEN clerk[c].hours ELSE Held(a) + clerk[c].hours
    BY <1>1, <1>2, <2>1 DEF OffSettled, Owes
  <2>4. due[a] = NewBalance(k)
    <3>1. CASE row = 0
      <4>1. Held(a) = 0
        BY <2>2, <3>1 DEF Held
      <4>2. QED
        BY <1>1, <1>6, <2>3, <3>1, <4>1 DEF NewBalance
    <3>2. CASE row = 1
      <4>1. Held(a) = k.held
        BY <1>6, <2>2, <3>2 DEF Held
      <4>2. QED
        BY <1>6, <2>3, <3>2, <4>1 DEF NewBalance
    <3>3. QED
      BY <2>2, <3>1, <3>2
  <2>5. Owes(clerk[c])'
    <3>1. k.row = 1 => k.held = Held(a)
      BY <1>6, <2>2 DEF Held
    <3>2. QED
      BY <1>1, <1>6, <1>7, <2>2, <2>4, <3>1 DEF Owes, NewBalance, Held
  <2>6. \A b \in Accounts \ {a} : due[b] = Held(b)
    BY <1>2, <1>7, <1>9, <2>1 DEF OffSettled, NoClerk
  <2>7. \A b \in Accounts \ {a} : due'[b] = Held(b)'
    BY <1>1, <2>6 DEF Held
  <2>8. QED
    BY <1>1, <1>6, <1>7, <2>1, <2>5, <2>7 DEF OffSettled, Owes
<1>10. QED
  BY <1>8, <1>9 DEF OffInv

LEMMA EmptyRows == \A q \in Seq(Int) : Len(q) = 0 <=> q = <<>>
<1>1. ASSUME NEW q \in Seq(Int), Len(q) = 0
      PROVE  q = <<>>
  BY <1>1
<1>2. QED
  BY <1>1

(* What writing a balance does to the rows of its account. *)
Written(s, n, i, t) == (i = 0 => t = Append(s, n)) /\ (i # 0 => t = [s EXCEPT ![i] = n])
OneRow(s, i) == Len(s) <= 1 /\ (s = <<>> => i = 0) /\ (s # <<>> => i = 1)
JustRow(t, n) == Len(t) = 1 /\ t[1] = n /\ t # <<>>

LEMMA WrittenRows ==
  ASSUME NEW s \in Seq(Int), NEW n \in Int, NEW i, NEW t, Written(s, n, i, t)
  PROVE  t \in Seq(Int) /\ (OneRow(s, i) => JustRow(t, n))
<1> USE DEF Written, OneRow, JustRow
<1>1. CASE i = 0
  <2>1. t = Append(s, n) /\ t \in Seq(Int) /\ Len(t) = Len(s) + 1 /\ t[Len(s) + 1] = n
    BY <1>1
  <2>2. QED
    BY <1>1, <2>1
<1>2. CASE i # 0
  <2>1. t = [s EXCEPT ![i] = n]
    BY <1>2
  <2>2. DOMAIN t = 1..Len(s) /\ Len(s) \in Nat /\ \A j \in 1..Len(s) : t[j] \in Int
    BY <2>1
  <2>3. t = [j \in 1..Len(s) |-> t[j]]
    BY <2>1, <2>2
  <2>4. t \in Seq(Int) /\ Len(t) = Len(s)
    BY <2>2, <2>3
  <2>5. ASSUME Len(s) <= 1, s = <<>> => i = 0, s # <<>> => i = 1
        PROVE  Len(t) = 1 /\ t[1] = n
    <3>1. s # <<>> /\ i = 1
      BY <1>2, <2>5
    <3>2. Len(s) # 0
      BY <3>1, EmptyRows
    <3>3. Len(s) = 1
      BY <2>2, <2>5, <3>2
    <3>4. QED
      BY <2>1, <2>4, <3>1, <3>3
  <2>6. ASSUME Len(t) = 1, t = <<>>
        PROVE  FALSE
    <3>1. Len(t) = 0
      BY <2>4, <2>6, EmptyRows, Zenon
    <3>2. QED
      BY <2>6, <3>1
  <2>7. QED
    BY <2>4, <2>5, <2>6
<1>3. QED
  BY <1>1, <1>2

LEMMA BalanceWrittenKeeps ==
  ASSUME OffInv, NEW c \in Clerks, BalanceWritten(c)
  PROVE  OffInv'
<1>1. /\ clerk[c].step = "write" /\ clerk[c].of \in Accounts /\ clerk[c].hours \in Int
      /\ clerk[c].held \in Int /\ balance \in [Accounts -> Seq(Int)]
  BY DEF BalanceWritten, OffInv, OffShape, ClerkShape
<1>2. PICK a \in Accounts : a = clerk[c].of
  BY <1>1
<1> DEFINE new == NewBalance(clerk[c])
<1>4. new \in Int
  BY <1>1 DEF NewBalance
<1>3. PICK rows : rows = IF clerk[c].row = 0 THEN Append(balance[a], new)
                         ELSE ReplaceAt(balance[a], clerk[c].row, new)
  OBVIOUS
<1>5. /\ balance' = [balance EXCEPT ![a] = rows] /\ Occupy(c, NoClerk)
      /\ UNCHANGED <<request, due>>
  BY <1>2, <1>3 DEF BalanceWritten, Free
<1>12. rows \in Seq(Int) /\ (OneRow(balance[a], clerk[c].row) => JustRow(rows, new))
  <2> HIDE DEF new
  <2>1. balance[a] \in Seq(Int)
    BY <1>1
  <2>2. Written(balance[a], new, clerk[c].row, rows)
    BY <1>3 DEF Written, ReplaceAt
  <2>3. QED
    BY <1>4, <2>1, <2>2, WrittenRows, Zenon
<1> HIDE DEF new
<1>6. /\ balance' \in [Accounts -> Seq(Int)] /\ balance'[a] = rows
      /\ \A b \in Accounts \ {a} : balance'[b] = balance[b]
  BY <1>1, <1>5, <1>12
<1>7. ClerkShape(NoClerk)
  BY DEF ClerkShape, NoClerk
<1>8. /\ DOMAIN clerk' = Clerks /\ clerk'[c] = NoClerk /\ muddled' \in BOOLEAN
      /\ \A d \in Clerks : ClerkShape(clerk'[d])
      /\ ~muddled' => /\ ~muddled
                      /\ \A d \in Clerks \ {c} : clerk[d] = NoClerk /\ clerk'[d] = NoClerk
  BY <1>5, <1>7, OneClerkMoves DEF OffInv
<1>9. OffShape'
  BY <1>5, <1>6, <1>8 DEF OffInv, OffShape, ClerkShape, NoClerk
<1>10. ASSUME ~muddled'
       PROVE  OffSettled'
  <2>1. /\ OffSettled
        /\ \A d \in Clerks : clerk'[d] = NoClerk /\ clerk'[d].step = "none"
    BY <1>8, <1>10 DEF OffInv, NoClerk
  <2>2. /\ clerk[c].row = IF balance[a] = <<>> THEN 0 ELSE 1
        /\ due[a] = new /\ Len(balance[a]) <= 1
    BY <1>1, <1>2, <2>1 DEF OffSettled, Owes, new
  <2>3. Len(rows) = 1 /\ rows[1] = new /\ rows # <<>>
    BY <1>12, <2>2 DEF OneRow, JustRow
  <2>4. due'[a] = Held(a)' /\ Len(balance'[a]) <= 1
    <3>1. due'[a] = new /\ balance'[a] # <<>> /\ Len(balance'[a]) = 1 /\ balance'[a][1] = new
      BY <1>5, <1>6, <2>2, <2>3
    <3>2. QED
      BY <3>1 DEF Held
  <2>5. \A b \in Accounts \ {a} : due[b] = Held(b)
    BY <1>2, <1>8, <1>10, <2>1 DEF OffSettled, NoClerk
  <2>6. \A b \in Accounts \ {a} : due'[b] = Held(b)' /\ Len(balance'[b]) <= 1
    BY <1>5, <1>6, <2>1, <2>5 DEF Held, OffSettled
  <2>7. \A d \in Clerks : Owes(clerk[d])'
    BY <2>1 DEF Owes
  <2>8. QED
    BY <2>1, <2>4, <2>6, <2>7 DEF OffSettled
<1>11. QED
  BY <1>9, <1>10 DEF OffInv

LEMMA OffInvStep == OffInv /\ [OffNext]_offVars => OffInv'
<1> SUFFICES ASSUME OffInv, [OffNext]_offVars
             PROVE  OffInv'
  OBVIOUS
<1>1. ASSUME NEW c \in Clerks, ClerkDies(c)
      PROVE  OffInv'
  <2>1. \A d \in Clerks : ClerkShape(clerk'[d])
    BY <1>1 DEF ClerkDies, OffInv, OffShape, ClerkShape, NoClerk
  <2>2. OffShape'
    BY <1>1, <2>1 DEF ClerkDies, OffInv, OffShape, ClerkShape, NoClerk
  <2>3. QED
    BY <1>1, <2>2 DEF ClerkDies, OffInv
<1>2. CASE UNCHANGED offVars
  BY <1>2 DEF offVars, OffInv, OffShape, ClerkShape, NoClerk, OffSettled, Owes, MayMove,
              NewBalance, Held
<1>3. QED
  BY <1>1, <1>2, NewRequestKeeps, RequestReadsKeep, StatusKeeps, CreditKeeps, BalanceReadKeeps,
     BalanceWrittenKeeps DEF OffNext

(* The books of every account balance when handlers follow one another, for any
   number of requests, credits and hours (drizzle-adapter.ts:980, 1045). *)
THEOREM BalancesAgree == OffSpec => []BooksBalance
<1>1. OffInv => BooksBalance
  <2> SUFFICES ASSUME OffInv, ~muddled, ~ClerksBusy(Clerks), NEW a \in Accounts
               PROVE  /\ Len(balance[a]) <= 1
                      /\ due[a] = IF balance[a] = <<>> THEN 0 ELSE Head(balance[a])
    BY DEF BooksBalance
  <2>1. OffSettled /\ \A c \in Clerks : clerk[c] = NoClerk /\ NoClerk.step = "none"
    BY DEF OffInv, ClerksBusy, NoClerk
  <2>2. due[a] = Held(a) /\ Len(balance[a]) <= 1 /\ balance[a] \in Seq(Int)
    BY <2>1 DEF OffSettled, OffInv, OffShape
  <2>3. QED
    BY <2>2 DEF Held
<1>2. QED
  BY OffInvInit, OffInvStep, <1>1, PTL DEF OffSpec

-----------------------------------------------------------------------------
(* A set of numbers has its minimum. *)
LEMMA MinIsLeft ==
  ASSUME NEW S \in SUBSET Nat, S # {}
  PROVE  Min(S) \in S /\ \A x \in S : Min(S) <= x
<1>1. \E x \in S : \A y \in S : <<y, x>> \notin OpToRel(<, Nat)
  BY NatLessThanWellFounded, WFMin
<1>2. \E x \in S : \A y \in S : x <= y
  <2>1. PICK x \in S : \A y \in S : <<y, x>> \notin OpToRel(<, Nat)
    BY <1>1
  <2>2. \A y \in S : ~(y < x)
    BY <2>1 DEF OpToRel
  <2>3. QED
    BY <2>2
<1>3. QED
  BY <1>2 DEF Min

-----------------------------------------------------------------------------
(* Recurring shifts. *)

PlanStates ==
  {NoPlan} \cup [at : {"look", "create", "mark"}, left : SUBSET SeriesDays, window : Windows]

(* The expansions that found a day missing, and those that created its shift *)
Filling(plans, d) ==
  {p \in Planners : plans[p].at \in {"create", "mark"} /\ Min(plans[p].left) = d}
Marking(plans, d) == {p \in Planners : plans[p].at = "mark" /\ Min(plans[p].left) = d}

SeriesShape ==
  /\ planner \in [Planners -> PlanStates]
  /\ \A p \in Planners : planner[p].at \in {"create", "mark"} => planner[p].left # {}

(* A day that is found missing has no shift: all that may still be marked on it
   are the shifts of expansions that found it so. *)
DaysBounded ==
  \A d \in SeriesDays :
    /\ marked[d] + Cardinality(Filling(planner, d)) <= Cardinality(Planners)
    /\ Cardinality(Marking(planner, d)) <= unmarked[d]

(* Days of the windows that were expanded, and those that the expansions in
   flight have behind them. *)
Covered ==
  {d \in SeriesDays :
     \/ \E w \in expanded : d \in OccurrenceDates(rule, w)
     \/ \E p \in Planners : /\ planner[p] # NoPlan /\ d \notin planner[p].left
                            /\ d \in OccurrenceDates(rule, planner[p].window)}

(* While one expansion runs at a time and none dies, a day has one shift,
   marked or being marked, and those there are are the ones covered so far. *)
OneAtATime ==
  /\ \A p, q \in Planners : planner[p] # NoPlan /\ planner[q] # NoPlan => p = q
  /\ \A d \in SeriesDays : /\ marked[d] + Cardinality(Filling(planner, d)) <= 1
                           /\ unmarked[d] = Cardinality(Marking(planner, d))
  /\ \A p \in Planners : planner[p] # NoPlan =>
       planner[p].left \subseteq OccurrenceDates(rule, planner[p].window)
  /\ Scheduled = Covered

SeriesInv == SeriesTypeOK /\ SeriesShape /\ DaysBounded /\ (~disturbed => OneAtATime)

-----------------------------------------------------------------------------
(* One expansion moves. *)
LEMMA OnePlannerMoves ==
  ASSUME NEW f, NEW g, NEW p \in Planners, \A q \in Planners \ {p} : g[q] = f[q]
  PROVE  /\ \A d : g[p].at \in {"create", "mark"} /\ Min(g[p].left) = d =>
                    Filling(g, d) = Filling(f, d) \cup {p}
         /\ \A d : g[p].at \notin {"create", "mark"} \/ Min(g[p].left) # d =>
                    Filling(g, d) = Filling(f, d) \ {p}
         /\ \A d : g[p].at = "mark" /\ Min(g[p].left) = d =>
                    Marking(g, d) = Marking(f, d) \cup {p}
         /\ \A d : g[p].at # "mark" \/ Min(g[p].left) # d =>
                    Marking(g, d) = Marking(f, d) \ {p}
BY DEF Filling, Marking

(* They are counted. *)
LEMMA PlannersAreCounted ==
  ASSUME NEW S, S \subseteq Planners, NEW p
  PROVE  /\ Cardinality(S) \in Nat /\ Cardinality(Planners) \in Nat
         /\ Cardinality(S) <= Cardinality(Planners)
         /\ p \notin S => Cardinality(S \cup {p}) = Cardinality(S) + 1
         /\ p \in S => Cardinality(S \ {p}) = Cardinality(S) - 1
         /\ Cardinality(S \ {p}) \in Nat /\ Cardinality(S \ {p}) <= Cardinality(S)
<1>1. IsFiniteSet(Planners)
  BY RulesAssumption
<1>2. IsFiniteSet(S) /\ Cardinality(S) <= Cardinality(Planners)
  BY <1>1, FS_Subset
<1>3. Cardinality(S) \in Nat /\ Cardinality(Planners) \in Nat
  BY <1>1, <1>2, FS_CardinalityType
<1>4. p \notin S => Cardinality(S \cup {p}) = Cardinality(S) + 1
  BY <1>2, FS_AddElement
<1>5. p \in S => Cardinality(S \ {p}) = Cardinality(S) - 1
  BY <1>2, FS_RemoveElement
<1>6. Cardinality(S \ {p}) \in Nat /\ Cardinality(S \ {p}) <= Cardinality(S)
  BY <1>2, FS_Subset, FS_CardinalityType
<1>7. QED
  BY <1>2, <1>3, <1>4, <1>5, <1>6

LEMMA SeriesInvInit == SeriesInit => SeriesInv
<1> SUFFICES ASSUME SeriesInit
             PROVE  SeriesInv
  OBVIOUS
<1> USE DEF SeriesInit
<1>1. \A p \in Planners : planner[p] = NoPlan /\ planner[p].at = "none"
  BY DEF NoPlan
<1>2. \A d : Filling(planner, d) = {} /\ Marking(planner, d) = {}
  BY <1>1 DEF Filling, Marking
<1>3. Cardinality({}) = 0 /\ Cardinality(Planners) \in Nat
  BY RulesAssumption, FS_EmptySet, FS_CardinalityType
<1>4. SeriesShape
  BY <1>1 DEF SeriesShape, PlanStates
<1>5. SeriesTypeOK
  BY <1>1 DEF SeriesTypeOK
<1>6. DaysBounded
  BY <1>2, <1>3 DEF DaysBounded
<1>7. OneAtATime
  <2>1. Scheduled = {} /\ Covered = {}
    BY <1>1 DEF Scheduled, Covered
  <2>2. \A d \in SeriesDays : marked[d] = 0 /\ unmarked[d] = 0
    OBVIOUS
  <2>3. \A d \in SeriesDays : /\ marked[d] + Cardinality(Filling(planner, d)) <= 1
                              /\ unmarked[d] = Cardinality(Marking(planner, d))
    BY <1>2, <1>3, <2>2
  <2> HIDE DEF SeriesInit
  <2>4. QED
    BY <1>1, <2>1, <2>3 DEF OneAtATime
<1>8. QED
  BY <1>4, <1>5, <1>6, <1>7 DEF SeriesInv

(* A plan that is none has its own place, and a day that is left is a day. *)
LEMMA PlansAreKnown ==
  ASSUME NEW k \in PlanStates
  PROVE  /\ k = NoPlan <=> k.at = "none"
         /\ k # NoPlan => /\ k \in [at : {"look", "create", "mark"}, left : SUBSET SeriesDays,
                                    window : Windows]
                          /\ (k.left # {} => Min(k.left) \in k.left /\ Min(k.left) \in SeriesDays)
<1>1. k = NoPlan \/ k \in [at : {"look", "create", "mark"}, left : SUBSET SeriesDays,
                           window : Windows]
  BY DEF PlanStates
<1>2. NoPlan.at = "none"
  BY DEF NoPlan
<1>3. k # NoPlan /\ k.left # {} => Min(k.left) \in k.left /\ Min(k.left) \in SeriesDays
  <2>1. k # NoPlan => k.left \in SUBSET Nat /\ k.left \subseteq SeriesDays
    BY <1>1, RulesAssumption DEF SeriesDays
  <2>2. QED
    BY <2>1, MinIsLeft
<1>4. QED
  BY <1>1, <1>2, <1>3

LEMMA ExpandBeginKeeps ==
  ASSUME SeriesInv, NEW p \in Planners, NEW w \in Windows, ExpandBegin(p, w)
  PROVE  SeriesInv'
<1> DEFINE k == [at |-> "look", left |-> OccurrenceDates(rule, w), window |-> w]
<1>1. /\ planner[p] = NoPlan /\ planner' = [planner EXCEPT ![p] = k]
      /\ disturbed' = (disturbed \/ PlannersBusy(Planners \ {p}))
      /\ UNCHANGED <<rule, marked, unmarked, expanded>>
  BY DEF ExpandBegin, Plan
<1>2. SeriesTypeOK /\ SeriesShape /\ DaysBounded /\ (~disturbed => OneAtATime)
  BY DEF SeriesInv
<1>3. k \in PlanStates /\ k.at = "look" /\ k.left = OccurrenceDates(rule, w) /\ k.window = w
  <2>1. OccurrenceDates(rule, w) \subseteq SeriesDays
    BY DEF OccurrenceDates
  <2>2. QED
    BY <2>1 DEF PlanStates
<1> HIDE DEF k
<1>4. k # NoPlan
  BY <1>3 DEF NoPlan
<1>5. planner[p].at = "none"
  BY <1>1 DEF NoPlan
<1>6. /\ planner' \in [Planners -> PlanStates] /\ planner'[p] = k
      /\ \A q \in Planners \ {p} : planner'[q] = planner[q]
      /\ \A d : Filling(planner', d) = Filling(planner, d) \ {p}
      /\ \A d : Marking(planner', d) = Marking(planner, d) \ {p}
  <2>1. planner \in [Planners -> PlanStates] /\ k \in PlanStates
    BY <1>2, <1>3 DEF SeriesShape
  <2>2. /\ planner' \in [Planners -> PlanStates] /\ planner'[p] = k
        /\ \A q \in Planners \ {p} : planner'[q] = planner[q]
    BY <1>1, <2>1
  <2>3. QED
    BY <1>3, <2>2, OnePlannerMoves
<1>7. \A d : p \notin Filling(planner, d) /\ p \notin Marking(planner, d)
  BY <1>5 DEF Filling, Marking
<1>8. \A d : Filling(planner', d) = Filling(planner, d) /\ Marking(planner', d) = Marking(planner, d)
  BY <1>6, <1>7
<1>9. SeriesTypeOK' /\ SeriesShape'
  BY <1>1, <1>2, <1>3, <1>6 DEF SeriesTypeOK, SeriesShape
<1>10. DaysBounded'
  BY <1>1, <1>2, <1>8 DEF DaysBounded
<1>11. ASSUME ~disturbed'
       PROVE  OneAtATime'
  <2>1. OneAtATime /\ \A q \in Planners \ {p} : planner[q] = NoPlan
    BY <1>1, <1>2, <1>11 DEF PlannersBusy
  <2>2. Covered' = Covered
    BY <1>1, <1>3, <1>6, <2>1 DEF Covered
  <2>3. Scheduled' = Scheduled
    BY <1>1 DEF Scheduled
  <2>4. QED
    BY <1>1, <1>3, <1>6, <1>8, <2>1, <2>2, <2>3 DEF OneAtATime
<1>12. QED
  BY <1>9, <1>10, <1>11 DEF SeriesInv

LEMMA ExpandLookKeeps ==
  ASSUME SeriesInv, NEW p \in Planners, ExpandLook(p)
  PROVE  SeriesInv'
<1> DEFINE k == planner[p]
           d == Min(k.left)
           n == IF marked[d] = 0 THEN [at |-> "create", left |-> k.left, window |-> k.window]
                ELSE [k EXCEPT !.left = @ \ {d}]
<1>1. /\ k.at = "look" /\ k.left # {} /\ planner' = [planner EXCEPT ![p] = n]
      /\ disturbed' = (disturbed \/ PlannersBusy(Planners \ {p}))
      /\ UNCHANGED <<rule, marked, unmarked, expanded>>
  BY DEF ExpandLook, Plan, Missing
<1>2. SeriesTypeOK /\ SeriesShape /\ DaysBounded /\ (~disturbed => OneAtATime)
  BY DEF SeriesInv
<1>3. /\ k # NoPlan
      /\ k \in [at : {"look", "create", "mark"}, left : SUBSET SeriesDays, window : Windows]
      /\ d \in k.left /\ d \in SeriesDays
  <2>1. k \in PlanStates
    BY <1>2 DEF SeriesShape
  <2>2. QED
    BY <1>1, <2>1, PlansAreKnown
<1> HIDE DEF d
<1>4. /\ n \in PlanStates /\ n # NoPlan /\ n.window = k.window
      /\ marked[d] = 0 => n.at = "create" /\ n.left = k.left
      /\ marked[d] # 0 => n.at = "look" /\ n.left = k.left \ {d}
  <2>1. CASE marked[d] = 0
    BY <1>3, <2>1 DEF PlanStates, NoPlan
  <2>2. CASE marked[d] # 0
    BY <1>1, <1>3, <2>2 DEF PlanStates, NoPlan
  <2>3. QED
    BY <2>1, <2>2
<1> HIDE DEF n
<1>5. /\ planner' \in [Planners -> PlanStates] /\ planner'[p] = n
      /\ \A q \in Planners \ {p} : planner'[q] = planner[q]
      /\ \A e : Filling(planner', e) = IF marked[d] = 0 /\ e = d THEN Filling(planner, e) \cup {p}
                                       ELSE Filling(planner, e) \ {p}
      /\ \A e : Marking(planner', e) = Marking(planner, e) \ {p}
  <2>1. planner \in [Planners -> PlanStates] /\ n \in PlanStates
    BY <1>2, <1>4 DEF SeriesShape
  <2>2. /\ planner' \in [Planners -> PlanStates] /\ planner'[p] = n
        /\ \A q \in Planners \ {p} : planner'[q] = planner[q]
    BY <1>1, <2>1
  <2>3. QED
    BY <1>4, <2>2, OnePlannerMoves DEF d
<1>6. \A e : p \notin Filling(planner, e) /\ p \notin Marking(planner, e)
  BY <1>1 DEF Filling, Marking
<1>7. \A e : Marking(planner', e) = Marking(planner, e)
  BY <1>5, <1>6
<1>8. \A e : marked[d] # 0 \/ e # d => Filling(planner', e) = Filling(planner, e)
  BY <1>5, <1>6
<1>9. SeriesTypeOK'
  BY <1>1, <1>2, <1>4, <1>5 DEF SeriesTypeOK
<1>10. SeriesShape'
  BY <1>1, <1>2, <1>4, <1>5 DEF SeriesShape
<1>11. DaysBounded'
  <2>1. ASSUME NEW e \in SeriesDays
        PROVE  /\ marked[e] + Cardinality(Filling(planner', e)) <= Cardinality(Planners)
               /\ Cardinality(Marking(planner', e)) <= unmarked[e]
    <3>1. CASE marked[d] = 0 /\ e = d
      <4>1. Filling(planner', e) \subseteq Planners
        BY DEF Filling
      <4>2. Cardinality(Filling(planner', e)) <= Cardinality(Planners)
            /\ Cardinality(Filling(planner', e)) \in Nat
        BY <4>1, PlannersAreCounted
      <4>3. Cardinality(Marking(planner', e)) <= unmarked[e]
        BY <1>2, <1>7, <2>1 DEF DaysBounded
      <4>4. marked[e] = 0
        BY <3>1
      <4>5. QED
        BY <4>2, <4>3, <4>4
    <3>2. CASE marked[d] # 0 \/ e # d
      BY <1>2, <1>7, <1>8, <3>2 DEF DaysBounded
    <3>3. QED
      BY <3>1, <3>2
  <2>2. QED
    BY <1>1, <2>1 DEF DaysBounded
<1>12. ASSUME ~disturbed'
       PROVE  OneAtATime'
  <2>1. OneAtATime /\ \A q \in Planners \ {p} : planner[q] = NoPlan
    BY <1>1, <1>2, <1>12 DEF PlannersBusy
  <2>2. k.left \subseteq OccurrenceDates(rule, k.window)
    BY <1>3, <2>1 DEF OneAtATime
  <2>3. Scheduled' = Scheduled /\ (marked[d] # 0 => d \in Scheduled)
    BY <1>1, <1>2, <1>3 DEF Scheduled, SeriesTypeOK
  <2>4. Covered' = Covered
    <3>1. d \in Covered \/ marked[d] = 0
      BY <2>1, <2>3 DEF OneAtATime
    <3>2. CASE marked[d] = 0
      BY <1>1, <1>3, <1>4, <1>5, <2>1, <3>2 DEF Covered
    <3>3. CASE marked[d] # 0
      <4>1. Covered' \subseteq Covered \cup {d}
        BY <1>1, <1>3, <1>4, <1>5, <2>1, <3>3 DEF Covered
      <4>2. Covered \subseteq Covered'
        BY <1>1, <1>3, <1>4, <1>5, <2>1, <3>3 DEF Covered
      <4>3. QED
        BY <3>1, <3>3, <4>1, <4>2
    <3>4. QED
      BY <3>2, <3>3
  <2>5. \A e \in SeriesDays : /\ marked[e] + Cardinality(Filling(planner', e)) <= 1
                              /\ unmarked[e] = Cardinality(Marking(planner', e))
    <3>1. SUFFICES ASSUME NEW e \in SeriesDays, marked[d] = 0, e = d
                   PROVE  marked[e] + Cardinality(Filling(planner', e)) <= 1
      BY <1>7, <1>8, <2>1 DEF OneAtATime
    <3>2. \A q \in Planners \ {p} : planner[q].at = "none"
      BY <2>1 DEF NoPlan
    <3>3. Filling(planner, e) = {}
      BY <1>6, <3>2 DEF Filling
    <3>4. Filling(planner', e) = {p}
      BY <1>5, <3>1, <3>3
    <3>5. marked[e] = 0 /\ Cardinality({p}) = 1
      BY <3>1, FS_Singleton
    <3>6. QED
      BY <3>4, <3>5
  <2>6. \A q \in Planners : planner'[q] # NoPlan =>
          q = p /\ planner'[q].left \subseteq OccurrenceDates(rule, planner'[q].window)
    BY <1>4, <1>5, <2>1, <2>2
  <2>7. QED
    BY <1>1, <2>1, <2>3, <2>4, <2>5, <2>6 DEF OneAtATime
<1>13. QED
  BY <1>9, <1>10, <1>11, <1>12 DEF SeriesInv

LEMMA ExpandCreateKeeps ==
  ASSUME SeriesInv, NEW p \in Planners, ExpandCreate(p)
  PROVE  SeriesInv'
<1> DEFINE k == planner[p]
           d == Min(k.left)
           n == [k EXCEPT !.at = "mark"]
<1>1. /\ k.at = "create" /\ planner' = [planner EXCEPT ![p] = n]
      /\ unmarked' = [unmarked EXCEPT ![d] = @ + 1]
      /\ disturbed' = (disturbed \/ PlannersBusy(Planners \ {p}))
      /\ UNCHANGED <<rule, marked, expanded>>
  BY DEF ExpandCreate, Plan
<1>2. SeriesTypeOK /\ SeriesShape /\ DaysBounded /\ (~disturbed => OneAtATime)
  BY DEF SeriesInv
<1>3. /\ k # NoPlan /\ k.left # {}
      /\ k \in [at : {"look", "create", "mark"}, left : SUBSET SeriesDays, window : Windows]
      /\ d \in k.left /\ d \in SeriesDays
  <2>1. k \in PlanStates /\ k.left # {}
    BY <1>1, <1>2 DEF SeriesShape
  <2>2. QED
    BY <1>1, <2>1, PlansAreKnown
<1> HIDE DEF d
<1>4. /\ n \in PlanStates /\ n # NoPlan /\ n.window = k.window
      /\ n.at = "mark" /\ n.left = k.left
  BY <1>3 DEF PlanStates, NoPlan
<1> HIDE DEF n
<1>5. /\ planner' \in [Planners -> PlanStates] /\ planner'[p] = n
      /\ \A q \in Planners \ {p} : planner'[q] = planner[q]
      /\ \A e : Filling(planner', e) = IF e = d THEN Filling(planner, e) \cup {p}
                                       ELSE Filling(planner, e) \ {p}
      /\ \A e : Marking(planner', e) = IF e = d THEN Marking(planner, e) \cup {p}
                                       ELSE Marking(planner, e) \ {p}
  <2>1. planner \in [Planners -> PlanStates] /\ n \in PlanStates
    BY <1>2, <1>4 DEF SeriesShape
  <2>2. /\ planner' \in [Planners -> PlanStates] /\ planner'[p] = n
        /\ \A q \in Planners \ {p} : planner'[q] = planner[q]
    BY <1>1, <2>1
  <2>3. QED
    BY <1>4, <2>2, OnePlannerMoves DEF d
<1>6. \A e : p \notin Marking(planner, e) /\ (p \in Filling(planner, e) <=> e = d)
  BY <1>1 DEF Filling, Marking, d
<1>7. \A e : Filling(planner', e) = Filling(planner, e)
  BY <1>5, <1>6
<1>8. \A e \in SeriesDays :
        Cardinality(Marking(planner', e)) =
          Cardinality(Marking(planner, e)) + (IF e = d THEN 1 ELSE 0)
  <2>1. ASSUME NEW e \in SeriesDays
        PROVE  Cardinality(Marking(planner', e)) =
                 Cardinality(Marking(planner, e)) + (IF e = d THEN 1 ELSE 0)
    <3>1. Marking(planner, e) \subseteq Planners
      BY DEF Marking
    <3>2. CASE e = d
      <4>1. Marking(planner', e) = Marking(planner, e) \cup {p} /\ p \notin Marking(planner, e)
        BY <1>5, <1>6, <3>2
      <4>2. QED
        BY <3>1, <3>2, <4>1, PlannersAreCounted
    <3>3. CASE e # d
      <4>1. Marking(planner', e) = Marking(planner, e)
        BY <1>5, <1>6, <3>3, SMTT(20)
      <4>2. Cardinality(Marking(planner, e)) \in Nat
        BY <3>1, PlannersAreCounted
      <4>3. QED
        BY <3>3, <4>1, <4>2
    <3>4. QED
      BY <3>2, <3>3
  <2>2. QED
    BY <2>1
<1>9. /\ unmarked' \in [SeriesDays -> Nat]
      /\ \A e \in SeriesDays : unmarked'[e] = unmarked[e] + (IF e = d THEN 1 ELSE 0)
  BY <1>1, <1>2, <1>3 DEF SeriesTypeOK
<1>10. SeriesTypeOK'
  BY <1>1, <1>2, <1>4, <1>5, <1>9 DEF SeriesTypeOK
<1>11. SeriesShape'
  BY <1>1, <1>2, <1>3, <1>4, <1>5 DEF SeriesShape
<1>12. DaysBounded'
  <2>1. \A e \in SeriesDays : Cardinality(Marking(planner, e)) \in Nat /\ unmarked[e] \in Nat
    <3>1. \A e : Marking(planner, e) \subseteq Planners
      BY DEF Marking
    <3>2. QED
      BY <1>2, <3>1, PlannersAreCounted DEF SeriesTypeOK
  <2>2. \A e \in SeriesDays : Cardinality(Marking(planner', e)) <= unmarked'[e]
    BY <1>2, <1>8, <1>9, <2>1 DEF DaysBounded
  <2>3. QED
    BY <1>1, <1>2, <1>7, <2>2 DEF DaysBounded
<1>13. ASSUME ~disturbed'
       PROVE  OneAtATime'
  <2>1. OneAtATime /\ \A q \in Planners \ {p} : planner[q] = NoPlan
    BY <1>1, <1>2, <1>13 DEF PlannersBusy
  <2>2. k.left \subseteq OccurrenceDates(rule, k.window)
    BY <1>3, <2>1 DEF OneAtATime
  <2>3. Scheduled' = Scheduled
    BY <1>1 DEF Scheduled
  <2>4. Covered' = Covered
    BY <1>1, <1>3, <1>4, <1>5, <2>1 DEF Covered
  <2>5. \A e \in SeriesDays : /\ marked[e] + Cardinality(Filling(planner', e)) <= 1
                              /\ unmarked'[e] = Cardinality(Marking(planner', e))
    BY <1>7, <1>8, <1>9, <2>1 DEF OneAtATime
  <2>6. \A q \in Planners : planner'[q] # NoPlan =>
          q = p /\ planner'[q].left \subseteq OccurrenceDates(rule, planner'[q].window)
    BY <1>4, <1>5, <2>1, <2>2
  <2>7. QED
    BY <1>1, <2>1, <2>3, <2>4, <2>5, <2>6 DEF OneAtATime
<1>14. QED
  BY <1>10, <1>11, <1>12, <1>13 DEF SeriesInv

LEMMA ExpandMarkKeeps ==
  ASSUME SeriesInv, NEW p \in Planners, ExpandMark(p)
  PROVE  SeriesInv'
<1> DEFINE k == planner[p]
           d == Min(k.left)
           n == [at |-> "look", left |-> k.left \ {d}, window |-> k.window]
<1>1. /\ k.at = "mark" /\ planner' = [planner EXCEPT ![p] = n]
      /\ unmarked' = [unmarked EXCEPT ![d] = @ - 1]
      /\ marked' = [marked EXCEPT ![d] = @ + 1]
      /\ disturbed' = (disturbed \/ PlannersBusy(Planners \ {p}))
      /\ UNCHANGED <<rule, expanded>>
  BY DEF ExpandMark, Plan
<1>2. SeriesTypeOK /\ SeriesShape /\ DaysBounded /\ (~disturbed => OneAtATime)
  BY DEF SeriesInv
<1>3. /\ k # NoPlan /\ k.left # {}
      /\ k \in [at : {"look", "create", "mark"}, left : SUBSET SeriesDays, window : Windows]
      /\ d \in k.left /\ d \in SeriesDays
  <2>1. k \in PlanStates /\ k.left # {}
    BY <1>1, <1>2 DEF SeriesShape
  <2>2. QED
    BY <1>1, <2>1, PlansAreKnown
<1> HIDE DEF d
<1>4. /\ n \in PlanStates /\ n # NoPlan /\ n.window = k.window
      /\ n.at = "look" /\ n.left = k.left \ {d}
  BY <1>3 DEF PlanStates, NoPlan
<1> HIDE DEF n
<1>5. /\ planner' \in [Planners -> PlanStates] /\ planner'[p] = n
      /\ \A q \in Planners \ {p} : planner'[q] = planner[q]
      /\ \A e : Filling(planner', e) = Filling(planner, e) \ {p}
      /\ \A e : Marking(planner', e) = Marking(planner, e) \ {p}
  <2>1. planner \in [Planners -> PlanStates] /\ n \in PlanStates
    BY <1>2, <1>4 DEF SeriesShape
  <2>2. /\ planner' \in [Planners -> PlanStates] /\ planner'[p] = n
        /\ \A q \in Planners \ {p} : planner'[q] = planner[q]
    BY <1>1, <2>1
  <2>3. QED
    BY <1>4, <2>2, OnePlannerMoves
<1>6. \A e : (p \in Marking(planner, e) <=> e = d) /\ (p \in Filling(planner, e) <=> e = d)
  BY <1>1 DEF Filling, Marking, d
<1>7. \A e \in SeriesDays :
        /\ Cardinality(Marking(planner', e)) =
             Cardinality(Marking(planner, e)) - (IF e = d THEN 1 ELSE 0)
        /\ Cardinality(Filling(planner', e)) =
             Cardinality(Filling(planner, e)) - (IF e = d THEN 1 ELSE 0)
        /\ Cardinality(Marking(planner, e)) \in Nat /\ Cardinality(Marking(planner', e)) \in Nat
        /\ Cardinality(Filling(planner, e)) \in Nat
  <2>1. ASSUME NEW e \in SeriesDays
        PROVE  /\ Cardinality(Marking(planner', e)) =
                    Cardinality(Marking(planner, e)) - (IF e = d THEN 1 ELSE 0)
               /\ Cardinality(Filling(planner', e)) =
                    Cardinality(Filling(planner, e)) - (IF e = d THEN 1 ELSE 0)
    <3>1. Marking(planner, e) \subseteq Planners /\ Filling(planner, e) \subseteq Planners
      BY DEF Marking, Filling
    <3>2. Cardinality(Marking(planner, e)) \in Nat /\ Cardinality(Filling(planner, e)) \in Nat
      BY <3>1, PlannersAreCounted
    <3>3. CASE e = d
      <4>1. /\ Marking(planner', e) = Marking(planner, e) \ {p} /\ p \in Marking(planner, e)
            /\ Filling(planner', e) = Filling(planner, e) \ {p} /\ p \in Filling(planner, e)
        BY <1>5, <1>6, <3>3
      <4>2. Cardinality(Marking(planner', e)) = Cardinality(Marking(planner, e)) - 1
        BY <3>1, <4>1, PlannersAreCounted
      <4>3. Cardinality(Filling(planner', e)) = Cardinality(Filling(planner, e)) - 1
        BY <3>1, <4>1, PlannersAreCounted
      <4>4. QED
        BY <3>3, <4>2, <4>3
    <3>4. CASE e # d
      <4>1. Marking(planner', e) = Marking(planner, e) /\ Filling(planner', e) = Filling(planner, e)
        BY <1>5, <1>6, <3>4
      <4>2. QED
        BY <3>2, <3>4, <4>1
    <3>5. QED
      BY <3>3, <3>4
  <2>2. \A e : Marking(planner, e) \subseteq Planners /\ Marking(planner', e) \subseteq Planners
              /\ Filling(planner, e) \subseteq Planners
    BY DEF Marking, Filling
  <2>3. QED
    BY <2>1, <2>2, PlannersAreCounted
<1>8. unmarked[d] # 0
  <2>1. Cardinality(Marking(planner, d)) <= unmarked[d] /\ unmarked[d] \in Nat
    BY <1>2, <1>3 DEF DaysBounded, SeriesTypeOK
  <2>2. QED
    BY <1>3, <1>7, <2>1
<1>9. /\ unmarked' \in [SeriesDays -> Nat] /\ marked' \in [SeriesDays -> Nat]
      /\ \A e \in SeriesDays : /\ unmarked'[e] = unmarked[e] - (IF e = d THEN 1 ELSE 0)
                               /\ marked'[e] = marked[e] + (IF e = d THEN 1 ELSE 0)
                               /\ unmarked[e] \in Nat /\ marked[e] \in Nat
  BY <1>1, <1>2, <1>3, <1>8 DEF SeriesTypeOK
<1>10. SeriesTypeOK'
  BY <1>1, <1>2, <1>4, <1>5, <1>9 DEF SeriesTypeOK
<1>11. SeriesShape'
  BY <1>1, <1>2, <1>3, <1>4, <1>5 DEF SeriesShape
<1>12. DaysBounded'
  <2>1. ASSUME NEW e \in SeriesDays
        PROVE  /\ marked'[e] + Cardinality(Filling(planner', e)) <= Cardinality(Planners)
               /\ Cardinality(Marking(planner', e)) <= unmarked'[e]
    <3>1. /\ marked[e] + Cardinality(Filling(planner, e)) <= Cardinality(Planners)
          /\ Cardinality(Marking(planner, e)) <= unmarked[e]
      BY <1>2 DEF DaysBounded
    <3>2. /\ marked'[e] + Cardinality(Filling(planner', e))
               = marked[e] + Cardinality(Filling(planner, e))
          /\ unmarked'[e] - Cardinality(Marking(planner', e))
               = unmarked[e] - Cardinality(Marking(planner, e))
          /\ unmarked'[e] \in Nat
      BY <1>7, <1>9
    <3>3. QED
      BY <1>7, <1>9, <3>1, <3>2
  <2>2. QED
    BY <2>1 DEF DaysBounded
<1>13. ASSUME ~disturbed'
       PROVE  OneAtATime'
  <2>1. OneAtATime /\ \A q \in Planners \ {p} : planner[q] = NoPlan
    BY <1>1, <1>2, <1>13 DEF PlannersBusy
  <2>2. k.left \subseteq OccurrenceDates(rule, k.window)
    BY <1>3, <2>1 DEF OneAtATime
  <2>3. Scheduled' = Scheduled \cup {d}
    BY <1>3, <1>9 DEF Scheduled
  <2>4. Covered' = Covered \cup {d}
    <3>1. Covered' \subseteq Covered \cup {d}
      BY <1>1, <1>3, <1>4, <1>5, <2>1 DEF Covered
    <3>2. Covered \subseteq Covered'
      BY <1>1, <1>3, <1>4, <1>5, <2>1 DEF Covered
    <3>3. d \in Covered'
      <4>1. d \in OccurrenceDates(rule', planner'[p].window) /\ d \notin planner'[p].left
        BY <1>1, <1>3, <1>4, <1>5, <2>2
      <4>2. QED
        BY <1>3, <1>4, <1>5, <4>1 DEF Covered
    <3>4. QED
      BY <3>1, <3>2, <3>3
  <2>5. \A e \in SeriesDays : /\ marked'[e] + Cardinality(Filling(planner', e)) <= 1
                              /\ unmarked'[e] = Cardinality(Marking(planner', e))
    <3>1. ASSUME NEW e \in SeriesDays
          PROVE  /\ marked'[e] + Cardinality(Filling(planner', e)) <= 1
                 /\ unmarked'[e] = Cardinality(Marking(planner', e))
      <4>1. /\ marked[e] + Cardinality(Filling(planner, e)) <= 1
            /\ unmarked[e] = Cardinality(Marking(planner, e))
        BY <2>1 DEF OneAtATime
      <4>2. marked'[e] + Cardinality(Filling(planner', e))
              = marked[e] + Cardinality(Filling(planner, e))
        BY <1>7, <1>9
      <4>3. QED
        BY <1>7, <1>9, <4>1, <4>2
    <3>2. QED
      BY <3>1
  <2>6. \A q \in Planners : planner'[q] # NoPlan =>
          q = p /\ planner'[q].left \subseteq OccurrenceDates(rule, planner'[q].window)
    BY <1>4, <1>5, <2>1, <2>2
  <2>7. QED
    BY <1>1, <2>1, <2>3, <2>4, <2>5, <2>6 DEF OneAtATime
<1>14. QED
  BY <1>10, <1>11, <1>12, <1>13 DEF SeriesInv

(* An expansion that ends, and one that dies, leaves the days as they are. *)
LEMMA ExpandStopsKeeps ==
  ASSUME SeriesInv, NEW p \in Planners, ExpandEnd(p) \/ ExpandDies(p)
  PROVE  SeriesInv'
<1> DEFINE k == planner[p]
<1>1. planner' = [planner EXCEPT ![p] = NoPlan] /\ UNCHANGED <<rule, marked, unmarked>>
  BY DEF ExpandEnd, ExpandDies, Plan
<1>2. SeriesTypeOK /\ SeriesShape /\ DaysBounded /\ (~disturbed => OneAtATime)
  BY DEF SeriesInv
<1>3. NoPlan \in PlanStates /\ NoPlan.at = "none"
  BY DEF PlanStates, NoPlan
<1>4. /\ planner' \in [Planners -> PlanStates] /\ planner'[p] = NoPlan
      /\ \A q \in Planners \ {p} : planner'[q] = planner[q]
      /\ \A e : Filling(planner', e) = Filling(planner, e) \ {p}
      /\ \A e : Marking(planner', e) = Marking(planner, e) \ {p}
  <2>1. planner \in [Planners -> PlanStates] /\ NoPlan \in PlanStates
    BY <1>2, <1>3 DEF SeriesShape
  <2>2. /\ planner' \in [Planners -> PlanStates] /\ planner'[p] = NoPlan
        /\ \A q \in Planners \ {p} : planner'[q] = planner[q]
    BY <1>1, <2>1
  <2>3. QED
    BY <1>3, <2>2, OnePlannerMoves
<1>5. \/ UNCHANGED expanded /\ disturbed'
      \/ /\ k.at = "look" /\ k.left = {} /\ expanded' = expanded \cup {k.window}
         /\ disturbed' = (disturbed \/ PlannersBusy(Planners \ {p}))
  BY DEF ExpandEnd, ExpandDies, Plan
<1>6. expanded' \subseteq Windows /\ disturbed' \in BOOLEAN
  <2>1. k \in PlanStates
    BY <1>2 DEF SeriesShape
  <2>2. k.at = "look" => k.window \in Windows
    BY <2>1, PlansAreKnown
  <2>3. expanded' \subseteq Windows
    BY <1>2, <1>5, <2>2 DEF SeriesTypeOK
  <2>4. disturbed' \in BOOLEAN
    BY <1>2 DEF SeriesTypeOK, ExpandEnd, ExpandDies, Plan
  <2>5. QED
    BY <2>3, <2>4
<1>7. SeriesTypeOK' /\ SeriesShape'
  BY <1>1, <1>2, <1>3, <1>4, <1>6 DEF SeriesTypeOK, SeriesShape
<1>8. DaysBounded'
  <2>1. ASSUME NEW e \in SeriesDays
        PROVE  /\ marked[e] + Cardinality(Filling(planner', e)) <= Cardinality(Planners)
               /\ Cardinality(Marking(planner', e)) <= unmarked[e]
    <3>1. /\ Cardinality(Filling(planner', e)) <= Cardinality(Filling(planner, e))
          /\ Cardinality(Marking(planner', e)) <= Cardinality(Marking(planner, e))
          /\ Cardinality(Filling(planner', e)) \in Nat /\ Cardinality(Filling(planner, e)) \in Nat
          /\ Cardinality(Marking(planner', e)) \in Nat /\ Cardinality(Marking(planner, e)) \in Nat
      <4>1. Marking(planner, e) \subseteq Planners /\ Filling(planner, e) \subseteq Planners
        BY DEF Marking, Filling
      <4>2. Cardinality(Filling(planner, e)) \in Nat /\ Cardinality(Marking(planner, e)) \in Nat
        BY <4>1, PlannersAreCounted
      <4>3. Filling(planner', e) = Filling(planner, e) \ {p}
            /\ Marking(planner', e) = Marking(planner, e) \ {p}
        BY <1>4
      <4>4. QED
        BY <4>1, <4>2, <4>3, PlannersAreCounted
    <3>2. /\ marked[e] \in Nat /\ unmarked[e] \in Nat /\ Cardinality(Planners) \in Nat
          /\ marked[e] + Cardinality(Filling(planner, e)) <= Cardinality(Planners)
          /\ Cardinality(Marking(planner, e)) <= unmarked[e]
      BY <1>2, RulesAssumption, FS_CardinalityType DEF SeriesTypeOK, DaysBounded
    <3>3. QED
      BY <3>1, <3>2
  <2>2. QED
    BY <1>1, <2>1 DEF DaysBounded
<1>9. ASSUME ~disturbed'
      PROVE  OneAtATime'
  <2>1. /\ OneAtATime /\ \A q \in Planners \ {p} : planner[q] = NoPlan
        /\ k.at = "look" /\ k.left = {} /\ expanded' = expanded \cup {k.window}
    BY <1>2, <1>5, <1>9 DEF PlannersBusy
  <2>2. \A e : p \notin Filling(planner, e) /\ p \notin Marking(planner, e)
    BY <2>1 DEF Filling, Marking
  <2>3. k # NoPlan
    BY <2>1 DEF NoPlan
  <2>4. Covered' = Covered
    BY <1>1, <1>4, <2>1, <2>3 DEF Covered
  <2>5. Scheduled' = Scheduled
    BY <1>1 DEF Scheduled
  <2>6. \A e : Filling(planner', e) = Filling(planner, e) /\ Marking(planner', e) = Marking(planner, e)
    BY <1>4, <2>2
  <2>7. QED
    BY <1>1, <1>4, <2>1, <2>4, <2>5, <2>6 DEF OneAtATime
<1>10. QED
  BY <1>7, <1>8, <1>9 DEF SeriesInv

LEMMA SeriesInvStep == SeriesInv /\ [SeriesNext]_seriesVars => SeriesInv'
<1> SUFFICES ASSUME SeriesInv, [SeriesNext]_seriesVars
             PROVE  SeriesInv'
  OBVIOUS
<1>1. ASSUME NEW p \in Planners, NEW w \in Windows, ExpandBegin(p, w)
      PROVE  SeriesInv'
  BY <1>1, ExpandBeginKeeps
<1>2. ASSUME NEW p \in Planners, ExpandLook(p) \/ ExpandCreate(p) \/ ExpandMark(p)
      PROVE  SeriesInv'
  BY <1>2, ExpandLookKeeps, ExpandCreateKeeps, ExpandMarkKeeps
<1>3. ASSUME NEW p \in Planners, ExpandEnd(p) \/ ExpandDies(p)
      PROVE  SeriesInv'
  BY <1>3, ExpandStopsKeeps
<1>4. CASE UNCHANGED seriesVars
  <2> USE <1>4 DEF seriesVars
  <2>1. SeriesTypeOK' <=> SeriesTypeOK
    BY DEF SeriesTypeOK
  <2>2. SeriesShape' <=> SeriesShape
    BY DEF SeriesShape
  <2>3. DaysBounded' <=> DaysBounded
    BY DEF DaysBounded
  <2>4. OneAtATime' <=> OneAtATime
    BY DEF OneAtATime, Scheduled, Covered
  <2>5. QED
    BY <2>1, <2>2, <2>3, <2>4 DEF SeriesInv
<1>5. QED
  BY <1>1, <1>2, <1>3, <1>4 DEF SeriesNext

(* A day of a window is one of all the days. *)
LEMMA WindowsOfOneCalendar ==
  ASSUME NEW r, r.max = 0, NEW w
  PROVE  OccurrenceDates(r, w) =
           {d \in OccurrenceDates(r, [from |-> 0, to |-> MaxDay]) : w.from <= d /\ d <= w.to}
<1>1. \A d : Matches(r, d, 0) <=> Matches(r, d, w.from)
  BY DEF Matches
<1>2. \A d \in SeriesDays : d >= 0 /\ d <= MaxDay
  BY RulesAssumption DEF SeriesDays
<1>3. \A d \in SeriesDays : d >= w.from <=> w.from <= d
  OBVIOUS
<1>4. QED
  BY <1>1, <1>2, <1>3 DEF OccurrenceDates

LEMMA SeriesInvImplies == SeriesInv => SeriesIsFilledOnce
<1> SUFFICES ASSUME SeriesInv
             PROVE  SeriesIsFilledOnce
  OBVIOUS
<1>1. SeriesTypeOK /\ SeriesShape /\ DaysBounded /\ (~disturbed => OneAtATime)
  BY DEF SeriesInv
<1>2. ShiftsBounded
  <2>1. ASSUME NEW d \in SeriesDays
        PROVE  marked[d] <= Cardinality(Planners)
    <3>1. marked[d] + Cardinality(Filling(planner, d)) <= Cardinality(Planners) /\ marked[d] \in Nat
      BY <1>1 DEF DaysBounded, SeriesTypeOK
    <3>2. Filling(planner, d) \subseteq Planners
      BY DEF Filling
    <3>3. Cardinality(Filling(planner, d)) \in Nat /\ Cardinality(Planners) \in Nat
      BY <3>2, PlannersAreCounted
    <3>4. QED
      BY <3>1, <3>3
  <2>2. QED
    BY <2>1 DEF ShiftsBounded
<1>3. ASSUME ~disturbed, ~PlannersBusy(Planners)
      PROVE  /\ \A d \in SeriesDays : marked[d] <= 1 /\ unmarked[d] = 0
             /\ rule.max = 0 =>
                  Scheduled = {d \in SeriesDays :
                                 /\ \E w \in expanded : w.from <= d /\ d <= w.to
                                 /\ d \in OccurrenceDates(rule, [from |-> 0, to |-> MaxDay])}
  <2>1. OneAtATime /\ \A p \in Planners : planner[p] = NoPlan /\ planner[p].at = "none"
    BY <1>1, <1>3 DEF PlannersBusy, NoPlan
  <2>2. \A d : Filling(planner, d) = {} /\ Marking(planner, d) = {}
    BY <2>1 DEF Filling, Marking
  <2>3. \A d \in SeriesDays : marked[d] <= 1 /\ unmarked[d] = 0
    <3>1. Cardinality({}) = 0
      BY FS_EmptySet
    <3>2. \A d \in SeriesDays : marked[d] + 0 <= 1 /\ unmarked[d] = 0 /\ marked[d] \in Nat
      BY <1>1, <2>1, <2>2, <3>1 DEF OneAtATime, SeriesTypeOK
    <3>3. QED
      BY <3>2
  <2>4. ASSUME rule.max = 0
        PROVE  Scheduled = {d \in SeriesDays :
                              /\ \E w \in expanded : w.from <= d /\ d <= w.to
                              /\ d \in OccurrenceDates(rule, [from |-> 0, to |-> MaxDay])}
    <3>1. Scheduled = {d \in SeriesDays : \E w \in expanded : d \in OccurrenceDates(rule, w)}
      BY <2>1 DEF OneAtATime, Covered
    <3>2. \A w : OccurrenceDates(rule, w) =
            {d \in OccurrenceDates(rule, [from |-> 0, to |-> MaxDay]) : w.from <= d /\ d <= w.to}
      BY <2>4, WindowsOfOneCalendar
    <3>3. OccurrenceDates(rule, [from |-> 0, to |-> MaxDay]) \subseteq SeriesDays
      BY DEF OccurrenceDates
    <3>4. QED
      BY <3>1, <3>2, <3>3
  <2>5. QED
    BY <2>3, <2>4
<1>4. QED
  BY <1>2, <1>3 DEF SeriesIsFilledOnce, WindowsCompose

(* For any rule, windows and number of expansions in flight: expanded one after *)
(* the other, in any order and however often, the windows give each day its one *)
(* shift, and whatever overlaps or dies, a day never has more shifts of the     *)
(* series than there may be expansions in flight (shift-recurrence.ts:37).      *)
THEOREM SeriesFilledOnce == SeriesSpec => []SeriesIsFilledOnce
<1>1. QED
  BY SeriesInvInit, SeriesInvStep, SeriesInvImplies, PTL DEF SeriesSpec

-----------------------------------------------------------------------------
(* The split of hours. *)

Before(d) == {e \in WeekDays : e < d}

(* What is kept of a running amount r with one threshold, when n was worked:
   all of it below the threshold, and the threshold less a slice at most. *)
Capped(r, n, limit) ==
  /\ n < limit => r = n
  /\ n >= limit => limit - Quarter <= r /\ r <= limit

(* The time of day d until regular time ends, when the week had b before it. *)
RegularUntil(b) == Least(DailyDouble, Least(DailyOt, Above(WeeklyOt, b)))

NearSplit(s, w, b) ==
  /\ s.holiday = 0
  /\ s.regular + s.ot + s.double = w
  /\ Capped(s.regular, w, RegularUntil(b))
  /\ Capped(w - s.double, w, DailyDouble)

(* The week so far is what was worked up to any day that has no later work. *)
OtInv ==
  /\ OtTypeOK
  /\ \A d \in WeekDays : d > day => worked[d] = 0
  /\ \A d \in WeekDays : d >= day => week = WeekBefore(d) + worked[d]
  /\ \A d \in WeekDays :
       IF d \in holidays THEN split[d] = [regular |-> 0, ot |-> 0, double |-> 0, holiday |-> worked[d]]
                         ELSE NearSplit(split[d], worked[d], WeekBefore(d))
  /\ ~ragged => IsWhole(week) /\ \A d \in WeekDays : IsWhole(worked[d])
  /\ ~ragged /\ WholeThresholds => \A d \in WeekDays : split[d] = DaySplit(d)
-----------------------------------------------------------------------------
LEMMA WeekBeforeIs ==
  ASSUME NEW d
  PROVE  WeekBefore(d) = PartSums(worked, Before(d))[Before(d)]
BY DEF WeekBefore, MapThenSumSet, MapThenFoldSet, PartSums, IsSums, Body, Pick, Before

LEMMA WeekBeforeIsAfter ==
  ASSUME NEW d
  PROVE  WeekBefore(d)' = PartSums(worked', Before(d))[Before(d)]
BY DEF WeekBefore, MapThenSumSet, MapThenFoldSet, PartSums, IsSums, Body, Pick, Before

LEMMA DaysBeforeAreFew ==
  ASSUME NEW d
  PROVE  IsFiniteSet(Before(d)) /\ Before(d) \subseteq WeekDays
BY OvertimeAssumption, FS_Subset DEF Before

LEMMA WeekBeforeIsANumber ==
  ASSUME NEW d, \A e \in WeekDays : worked[e] \in Nat
  PROVE  WeekBefore(d) \in Nat
<1>1. IsFiniteSet(Before(d)) /\ \A e \in Before(d) : worked[e] \in Nat
  BY DaysBeforeAreFew
<1>2. PartSums(worked, Before(d))[Before(d)] \in Nat
  BY <1>1, SumsOfNumbers
<1>3. QED
  BY <1>2, WeekBeforeIs
-----------------------------------------------------------------------------
(* Whole quarters. *)
LEMMA Quotients ==
  ASSUME NEW n \in Nat
  PROVE  /\ n \div Quarter \in Nat
         /\ Quarter * (n \div Quarter) <= n
         /\ n < Quarter * (n \div Quarter) + Quarter
         /\ n % Quarter = n - Quarter * (n \div Quarter)
<1>1. Quarter \in Nat /\ Quarter > 0
  BY OvertimeAssumption
<1>2. QED
  BY <1>1

LEMMA Multiples ==
  ASSUME NEW j \in Nat, NEW k \in Nat
  PROVE  /\ j < k => Quarter * j + Quarter <= Quarter * k
         /\ Quarter * (k + 1) = Quarter * k + Quarter
         /\ Quarter * j \in Nat
<1>1. Quarter \in Nat /\ Quarter > 0
  BY OvertimeAssumption
<1>2. QED
  BY <1>1

LEMMA MultiplesAreWhole ==
  ASSUME NEW k \in Nat
  PROVE  IsWhole(Quarter * k)
<1> DEFINE n == Quarter * k
           j == n \div Quarter
<1>1. n \in Nat /\ Quarter \in Nat /\ Quarter > 0
  BY OvertimeAssumption, Multiples
<1>2. j \in Nat /\ Quarter * j <= n /\ n < Quarter * j + Quarter /\ n % Quarter = n - Quarter * j
  BY <1>1, Quotients
<1>3. ~(j < k) /\ ~(k < j)
  <2> HIDE DEF j
  <2>1. QED
    BY <1>1, <1>2, Multiples
<1>4. QED
  <2> HIDE DEF j
  <2>1. j = k
    BY <1>2, <1>3
  <2>2. QED
    BY <1>1, <1>2, <2>1 DEF IsWhole

LEMMA WholeNumbers ==
  ASSUME NEW m \in Nat, NEW n \in Nat, IsWhole(m), IsWhole(n)
  PROVE  IsWhole(m + n) /\ IsWhole(Above(m, n)) /\ IsWhole(Least(m, n))
<1> DEFINE j == m \div Quarter
           k == n \div Quarter
<1>1. /\ Quarter \in Nat /\ Quarter > 0 /\ j \in Nat /\ k \in Nat
      /\ m = Quarter * j /\ n = Quarter * k
  BY OvertimeAssumption, Quotients DEF IsWhole
<1> HIDE DEF j, k
<1>2. m + n = Quarter * (j + k)
  BY <1>1
<1>3. Above(m, n) = Quarter * Above(j, k) /\ Above(j, k) \in Nat
  <2>1. CASE j <= k
    <3>1. m <= n
      BY <1>1, <2>1, Multiples
    <3>2. QED
      BY <1>1, <2>1, <3>1 DEF Above
  <2>2. CASE j > k
    <3>1. m > n /\ m - n = Quarter * (j - k)
      BY <1>1, <2>2, Multiples
    <3>2. QED
      BY <1>1, <2>2, <3>1 DEF Above
  <2>3. QED
    BY <1>1, <2>1, <2>2
<1>4. IsWhole(m + n) /\ IsWhole(Above(m, n))
  <2>1. j + k \in Nat
    BY <1>1
  <2>2. QED
    BY <1>2, <1>3, <2>1, MultiplesAreWhole
<1>5. QED
  BY <1>4 DEF Least

(* How much of an entry of length h lies in slices that end within room. *)
Fit(h, room) == IF h <= room THEN h ELSE Quarter * (room \div Quarter)

LEMMA FitBounds ==
  ASSUME NEW h \in Nat, NEW room \in Nat
  PROVE  /\ Fit(h, room) \in Nat
         /\ Fit(h, room) <= Least(h, room)
         /\ Least(h, room) < Fit(h, room) + Quarter
         /\ IsWhole(room) => Fit(h, room) = Least(h, room)
<1>0. room \div Quarter \in Nat
  BY Quotients
<1>1. /\ Quarter \in Nat /\ Quarter > 0
      /\ Quarter * (room \div Quarter) <= room /\ room < Quarter * (room \div Quarter) + Quarter
      /\ room % Quarter = room - Quarter * (room \div Quarter)
      /\ Quarter * (room \div Quarter) \in Nat
  BY <1>0, OvertimeAssumption, Quotients, Multiples
<1>2. QED
  BY <1>0, <1>1 DEF Fit, Least, IsWhole

LEMMA SliceEnds ==
  ASSUME NEW h \in Nat, NEW room \in Nat, NEW t \in 1..h
  PROVE  /\ SliceEnd(t, h) \in Nat \ {0}
         /\ SliceEnd(t, h) > room <=> t > Fit(h, room)
<1> DEFINE k == (t - 1) \div Quarter
           j == room \div Quarter
<1>0. t - 1 \in Nat /\ j \in Nat /\ k \in Nat
  <2>1. t - 1 \in Nat
    OBVIOUS
  <2>2. QED
    BY <2>1, Quotients
<1>1. /\ Quarter \in Nat /\ Quarter > 0 /\ t - 1 \in Nat /\ j \in Nat /\ k \in Nat
      /\ Quarter * k <= t - 1 /\ t - 1 < Quarter * k + Quarter
      /\ Quarter * j <= room /\ room < Quarter * j + Quarter
      /\ Quarter * j \in Nat /\ Quarter * k \in Nat
  BY <1>0, OvertimeAssumption, Quotients, Multiples
<1>2. SliceEnd(t, h) = Least(Quarter * k + Quarter, h)
  <2>1. Quarter * (k + 1) = Quarter * k + Quarter
    BY <1>1, Multiples
  <2>2. QED
    BY <2>1 DEF SliceEnd
<1>3. Fit(h, room) = IF h <= room THEN h ELSE Quarter * j
  BY DEF Fit
<1> HIDE DEF j, k
<1>4. (k < j => Quarter * k + Quarter <= Quarter * j) /\ (j < k => Quarter * j + Quarter <= Quarter * k)
  BY <1>1, Multiples
<1>5. SliceEnd(t, h) \in Nat \ {0}
  BY <1>1, <1>2 DEF Least
<1>6. CASE h <= room
  BY <1>1, <1>2, <1>3, <1>6 DEF Least
<1>7. CASE ~(h <= room)
  <2>1. t > Quarter * j <=> ~(k < j)
    BY <1>1, <1>4
  <2>2. Quarter * k + Quarter > room <=> ~(k < j)
    BY <1>1, <1>4
  <2>3. QED
    BY <1>1, <1>2, <1>3, <1>7, <2>1, <2>2 DEF Least
<1>8. QED
  BY <1>5, <1>6, <1>7

(* The room an entry leaves below the thresholds, as the sums come out. *)
DoubleRoom(d, hair) == Above(DailyDouble, worked[d] + hair.double)
OtRoom(d, hair) ==
  Least(Above(DailyOt, worked[d] + hair.ot), Above(WeeklyOt, week + hair.week))

(* Three thresholds leave the room that the least of them leaves. *)
LEMMA RoomBelowThree ==
  ASSUME NEW x \in Nat, NEW y \in Nat, NEW z \in Nat, NEW n \in Nat,
         NEW i \in {n, n + 1}, NEW j \in {n, n + 1}, NEW k \in {n, n + 1}
  PROVE  Least(Above(x, i), Least(Above(y, j), Above(z, k)))
           \in {Above(Least(x, Least(y, z)), n), Above(Least(x, Least(y, z)), n + 1)}
<1> DEFINE limit == Least(x, Least(y, z))
           room == Least(Above(x, i), Least(Above(y, j), Above(z, k)))
<1>1. limit \in Nat /\ limit <= x /\ limit <= y /\ limit <= z
      /\ (limit = x \/ limit = y \/ limit = z)
  BY DEF Least
<1>2. ASSUME NEW a \in Nat, NEW b \in {n, n + 1}
      PROVE  /\ Above(a, b) \in Nat
             /\ limit <= a => Above(limit, n + 1) <= Above(a, b)
             /\ limit = a => Above(a, b) <= Above(limit, n)
  <2> HIDE DEF limit
  <2>1. QED
    BY <1>1 DEF Above
<1>3. Above(limit, n) <= Above(limit, n + 1) + 1 /\ Above(limit, n) \in Nat
      /\ Above(limit, n + 1) \in Nat /\ Above(limit, n + 1) <= Above(limit, n)
  <2> HIDE DEF limit
  <2>1. QED
    BY <1>1 DEF Above
<1>4. /\ Above(limit, n + 1) <= room /\ room <= Above(limit, n) /\ room \in Nat
  <2> DEFINE p == Above(x, i)
             q == Above(y, j)
             s == Above(z, k)
  <2>1. p \in Nat /\ Above(limit, n + 1) <= p /\ (limit = x => p <= Above(limit, n))
    BY <1>1, <1>2
  <2>2. q \in Nat /\ Above(limit, n + 1) <= q /\ (limit = y => q <= Above(limit, n))
    BY <1>1, <1>2
  <2>3. s \in Nat /\ Above(limit, n + 1) <= s /\ (limit = z => s <= Above(limit, n))
    BY <1>1, <1>2
  <2> HIDE DEF limit, p, q, s
  <2>4. room = Least(p, Least(q, s))
    BY DEF p, q, s
  <2>5. QED
    BY <1>1, <1>3, <2>1, <2>2, <2>3, <2>4 DEF Least
<1>5. QED
  <2> HIDE DEF limit, room
  <2>1. room = Above(limit, n) \/ room = Above(limit, n + 1)
    BY <1>3, <1>4
  <2>2. QED
    BY <2>1 DEF limit, room

LEMMA SlicesCounted ==
  ASSUME NEW d, NEW h \in Nat, NEW hair \in Hairs, worked[d] \in Nat, week \in Nat
  PROVE  LET low == Fit(h, DoubleRoom(d, hair))
             mid == Fit(h, Least(DoubleRoom(d, hair), OtRoom(d, hair))) IN
         /\ Cardinality(DoubleTime(d, h, hair)) = h - low
         /\ Cardinality(OverTime(d, h, hair)) = low - mid
         /\ low \in Nat /\ mid \in Nat /\ mid <= low /\ low <= h
<1> DEFINE one == DoubleRoom(d, hair)
           two == Least(one, OtRoom(d, hair))
           low == Fit(h, one)
           mid == Fit(h, two)
<1>1. /\ DailyOt \in Nat /\ DailyDouble \in Nat /\ WeeklyOt \in Nat /\ worked[d] \in Nat
      /\ hair.double \in Nat /\ hair.ot \in Nat /\ hair.week \in Nat
  BY OvertimeAssumption DEF Hairs
<1>2. one \in Nat /\ two \in Nat
  BY <1>1 DEF DoubleRoom, OtRoom, Least, Above
<1>3. ASSUME NEW e \in Nat \ {0}
      PROVE  /\ worked[d] + e + hair.double > DailyDouble <=> e > one
             /\ (e > one \/ worked[d] + e + hair.ot > DailyOt \/ week + e + hair.week > WeeklyOt)
                  <=> e > two
  BY <1>1 DEF DoubleRoom, OtRoom, Least, Above
<1> HIDE DEF one, two
<1>4. low \in Nat /\ mid \in Nat /\ low <= h /\ mid <= h
  <2>1. Least(h, one) <= h /\ Least(h, two) <= h
    BY <1>2 DEF Least
  <2>2. /\ Fit(h, one) \in Nat /\ Fit(h, one) <= Least(h, one)
        /\ Fit(h, two) \in Nat /\ Fit(h, two) <= Least(h, two)
    BY <1>2, FitBounds
  <2>3. Least(h, one) \in Nat /\ Least(h, two) \in Nat
    BY <1>2 DEF Least
  <2>4. QED
    BY <2>1, <2>2, <2>3
<1>5. \A t \in 1..h : /\ SliceEnd(t, h) \in Nat \ {0}
                      /\ SliceEnd(t, h) > one <=> t > low
                      /\ SliceEnd(t, h) > two <=> t > mid
  BY <1>2, SliceEnds
<1> HIDE DEF low, mid
<1>6. DoubleTime(d, h, hair) = {t \in 1..h : t > low}
  BY <1>3, <1>5 DEF DoubleTime
<1>7. \A t \in 1..h : t > low => t > mid
  <2>1. ASSUME NEW t \in 1..h, t > low
        PROVE  t > mid
    BY <1>3, <1>5, <2>1
  <2>2. QED
    BY <2>1
<1>8. mid <= low
  <2>1. CASE low = h
    BY <1>4, <2>1
  <2>2. CASE low < h
    BY <1>4, <1>7, <2>2
  <2>3. QED
    BY <1>4, <2>1, <2>2
<1>9. OverTime(d, h, hair) = {t \in 1..h : t > mid /\ ~(t > low)}
  <2>1. ASSUME NEW t \in 1..h, ~(t > low)
        PROVE  (\/ worked[d] + SliceEnd(t, h) + hair.ot > DailyOt
                \/ week + SliceEnd(t, h) + hair.week > WeeklyOt) <=> t > mid
    BY <1>3, <1>5, <2>1
  <2>2. QED
    BY <1>6, <2>1 DEF OverTime
<1>10. DoubleTime(d, h, hair) = (low + 1)..h /\ OverTime(d, h, hair) = (mid + 1)..low
  BY <1>4, <1>6, <1>8, <1>9
<1>11. Cardinality((low + 1)..h) = h - low /\ Cardinality((mid + 1)..low) = low - mid
  <2>1. /\ Cardinality((low + 1)..h) = IF low + 1 > h THEN 0 ELSE h - (low + 1) + 1
        /\ Cardinality((mid + 1)..low) = IF mid + 1 > low THEN 0 ELSE low - (mid + 1) + 1
    BY <1>4, FS_Interval
  <2>2. QED
    BY <1>4, <1>8, <2>1
<1>12. QED
  BY <1>4, <1>8, <1>10, <1>11 DEF low, mid, one, two

(* One threshold, before and after an entry; the room left below it is what the
   total says, or a hair less. *)
LEMMA CappedGrows ==
  ASSUME NEW r \in Nat, NEW n \in Nat, NEW h \in Nat, NEW limit \in Nat, NEW room \in Nat,
         Capped(r, n, limit), room = Above(limit, n) \/ room = Above(limit, n + 1)
  PROVE  Capped(r + Fit(h, room), n + h, limit)
<1> DEFINE f == Fit(h, room)
<1>0. f \in Nat /\ f <= Least(h, room) /\ Least(h, room) < f + Quarter
  BY FitBounds
<1> HIDE DEF f
<1>1. /\ Quarter \in Nat /\ Quarter > 0 /\ f \in Nat /\ f <= Least(h, room)
      /\ Least(h, room) < f + Quarter
  BY <1>0, OvertimeAssumption
<1>2. CASE n >= limit
  <2>1. room = 0
    BY <1>2 DEF Above
  <2>2. f = 0
    BY <1>1, <2>1 DEF Least
  <2>3. QED
    BY <1>1, <1>2, <2>2 DEF Capped, f
<1>3. CASE n < limit
  <2>1. r = n /\ (room = limit - n \/ room = limit - n - 1)
    BY <1>3 DEF Capped, Above
  <2>2. CASE n + h < limit
    <3>1. h <= room
      BY <1>3, <2>1, <2>2
    <3>2. Fit(h, room) = h
      BY <3>1 DEF Fit
    <3>3. QED
      BY <2>1, <2>2, <3>2 DEF Capped
  <2>3. CASE n + h >= limit
    <3>1. limit - n - 1 <= Least(h, room) /\ Least(h, room) <= limit - n
      BY <1>3, <2>1, <2>3 DEF Least
    <3>2. limit - Quarter <= r + f /\ r + f <= limit
      BY <1>1, <2>1, <3>1 DEF Least
    <3>3. QED
      BY <2>3, <3>2 DEF Capped, f
  <2>4. QED
    BY <2>2, <2>3
<1>4. QED
  BY <1>2, <1>3

(* What a day is split into when w was worked and the week had b before it. *)
Regular(w, b) == Least(Least(w, DailyDouble), Least(DailyOt, Above(WeeklyOt, b)))
Plain(w) == Least(w, DailyDouble)

LEMMA SplitGrows ==
  ASSUME NEW w \in Nat, NEW b \in Nat, NEW h \in Nat, NEW low, NEW mid,
         low = Least(h, Above(DailyDouble, w)),
         mid = Least(low, Least(Above(DailyOt, w), Above(WeeklyOt, b + w)))
  PROVE  /\ Regular(w + h, b) = Regular(w, b) + h - (h - low) - (low - mid)
         /\ Plain(w + h) - Regular(w + h, b) = Plain(w) - Regular(w, b) + (low - mid)
         /\ (w + h) - Plain(w + h) = w - Plain(w) + (h - low)
<1>1. DailyOt \in Nat /\ DailyDouble \in Nat /\ WeeklyOt \in Nat
  BY OvertimeAssumption
<1>2. QED
  BY <1>1 DEF Regular, Plain, Least, Above

LEMMA SplitTypes ==
  ASSUME NEW w \in Nat, NEW b \in Nat
  PROVE  /\ Regular(w, b) \in Nat /\ Plain(w) - Regular(w, b) \in Nat /\ w - Plain(w) \in Nat
         /\ w = 0 => Regular(w, b) = 0 /\ Plain(w) = 0
<1>1. DailyOt \in Nat /\ DailyDouble \in Nat /\ WeeklyOt \in Nat
  BY OvertimeAssumption
<1>2. QED
  BY <1>1 DEF Regular, Plain, Least, Above

LEMMA DaySplitIs ==
  ASSUME NEW d
  PROVE  DaySplit(d) =
           IF d \in holidays THEN [regular |-> 0, ot |-> 0, double |-> 0, holiday |-> worked[d]]
           ELSE [regular |-> Regular(worked[d], WeekBefore(d)),
                 ot |-> Plain(worked[d]) - Regular(worked[d], WeekBefore(d)),
                 double |-> worked[d] - Plain(worked[d]), holiday |-> 0]
BY DEF DaySplit, Regular, Plain

LEMMA DaySplitIsAfter ==
  ASSUME NEW d
  PROVE  DaySplit(d)' =
           IF d \in holidays' THEN [regular |-> 0, ot |-> 0, double |-> 0, holiday |-> worked'[d]]
           ELSE [regular |-> Regular(worked'[d], WeekBefore(d)'),
                 ot |-> Plain(worked'[d]) - Regular(worked'[d], WeekBefore(d)'),
                 double |-> worked'[d] - Plain(worked'[d]), holiday |-> 0]
BY DEF DaySplit, Regular, Plain
-----------------------------------------------------------------------------
LEMMA OtInvInit == OtInit => OtInv
<1> SUFFICES ASSUME OtInit
             PROVE  OtInv
  OBVIOUS
<1>1. \A d \in WeekDays : worked[d] = 0
  BY DEF OtInit
<1>2. \A d \in WeekDays : WeekBefore(d) = 0
  <2>1. ASSUME NEW d \in WeekDays
        PROVE  WeekBefore(d) = 0
    <3>1. \A e \in Before(d) : worked[e] = 0
      BY <1>1 DEF Before
    <3>2. PartSums(worked, Before(d))[Before(d)] = 0
      BY <3>1, DaysBeforeAreFew, SumsOfNothing
    <3>3. QED
      BY <3>2, WeekBeforeIs
  <2>2. QED
    BY <2>1
<1>3. OtTypeOK
  <2>1. Min(WeekDays) \in WeekDays
    BY OvertimeAssumption, MinIsLeft
  <2>2. QED
    BY <2>1 DEF OtInit, OtTypeOK
<1>4. \A d \in WeekDays : split[d] = DaySplit(d)
  <2>1. ASSUME NEW d \in WeekDays
        PROVE  split[d] = DaySplit(d)
    <3>1. split[d] = [regular |-> 0, ot |-> 0, double |-> 0, holiday |-> 0]
      BY DEF OtInit
    <3>2. Regular(0, 0) = 0 /\ Plain(0) = 0
      BY SplitTypes
    <3>3. QED
      BY <1>1, <1>2, <3>1, <3>2, DaySplitIs
  <2>2. QED
    BY <2>1
<1>5. week = 0 /\ IsWhole(0)
  <2>1. IsWhole(Quarter * 0) /\ Quarter * 0 = 0
    BY MultiplesAreWhole, OvertimeAssumption
  <2>2. QED
    BY <2>1 DEF OtInit
<1>6. ASSUME NEW d \in WeekDays
      PROVE  IF d \in holidays
             THEN split[d] = [regular |-> 0, ot |-> 0, double |-> 0, holiday |-> worked[d]]
             ELSE NearSplit(split[d], worked[d], WeekBefore(d))
  <2>1. split[d] = [regular |-> 0, ot |-> 0, double |-> 0, holiday |-> 0] /\ worked[d] = 0
    BY <1>1 DEF OtInit
  <2>2. \A limit \in Nat : Capped(0, 0, limit)
    BY OvertimeAssumption DEF Capped
  <2>3. RegularUntil(0) \in Nat /\ DailyDouble \in Nat
    BY OvertimeAssumption DEF RegularUntil, Least, Above
  <2>4. NearSplit(split[d], worked[d], WeekBefore(d))
    BY <1>2, <2>1, <2>2, <2>3 DEF NearSplit
  <2>5. QED
    BY <2>1, <2>4
<1>7. QED
  BY <1>1, <1>2, <1>3, <1>4, <1>5, <1>6 DEF OtInv

LEMMA ApplyEntryKeeps ==
  ASSUME OtInv, NEW d \in WeekDays, NEW h \in Lengths, NEW hair \in Hairs,
         ApplyEntry(d, h, hair)
  PROVE  OtInv'
<1> DEFINE w == worked[d]
           b == WeekBefore(d)
           two == Cardinality(DoubleTime(d, h, hair))
           over == Cardinality(OverTime(d, h, hair))
<1>1. /\ d >= day /\ day' = d /\ week' = week + h /\ holidays' = holidays
      /\ worked' = [worked EXCEPT ![d] = @ + h]
      /\ split' = [split EXCEPT ![d] =
           IF d \in holidays THEN [split[d] EXCEPT !.holiday = split[d].holiday + h]
           ELSE [regular |-> @.regular + h - two - over, ot |-> @.ot + over,
                 double |-> @.double + two, holiday |-> 0]]
      /\ ragged' = (ragged \/ ~IsWhole(h)) /\ (hair # NoHair => ragged')
  BY DEF ApplyEntry
<1>2. /\ OtTypeOK
      /\ \A e \in WeekDays : e > day => worked[e] = 0
      /\ \A e \in WeekDays : e >= day => week = WeekBefore(e) + worked[e]
      /\ \A e \in WeekDays :
           IF e \in holidays
           THEN split[e] = [regular |-> 0, ot |-> 0, double |-> 0, holiday |-> worked[e]]
           ELSE NearSplit(split[e], worked[e], WeekBefore(e))
      /\ ~ragged => IsWhole(week) /\ \A e \in WeekDays : IsWhole(worked[e])
      /\ ~ragged /\ WholeThresholds => \A e \in WeekDays : split[e] = DaySplit(e)
  BY DEF OtInv
<1>3. /\ h \in Nat /\ WeekDays \subseteq Nat /\ day \in Nat /\ week \in Nat /\ w \in Nat
      /\ \A e \in WeekDays : worked[e] \in Nat
  BY <1>2, OvertimeAssumption DEF OtTypeOK
<1>4. /\ worked' \in [WeekDays -> Nat] /\ worked'[d] = w + h
      /\ \A e \in WeekDays : e # d => worked'[e] = worked[e]
  BY <1>1, <1>2, <1>3 DEF OtTypeOK
<1>5. \A e \in WeekDays : /\ WeekBefore(e) \in Nat
                          /\ e > d => WeekBefore(e)' = WeekBefore(e) + h
                          /\ e <= d => WeekBefore(e)' = WeekBefore(e)
  <2>1. ASSUME NEW e \in WeekDays
        PROVE  /\ WeekBefore(e) \in Nat
               /\ d \in Before(e) => WeekBefore(e)' = WeekBefore(e) + h
               /\ d \notin Before(e) => WeekBefore(e)' = WeekBefore(e)
    <3>1. IsFiniteSet(Before(e)) /\ Before(e) \subseteq WeekDays
      BY DaysBeforeAreFew
    <3>2. /\ \A x \in Before(e) : worked[x] \in Nat
          /\ \A x \in Before(e) : x # d => worked'[x] = worked[x]
          /\ d \in Before(e) => worked'[d] = worked[d] + h
      BY <1>3, <1>4, <3>1 DEF Before
    <3>3. PartSums(worked, Before(e))[Before(e)] \in Nat
      BY <3>1, <3>2, SumsOfNumbers
    <3>4. /\ d \in Before(e) => PartSums(worked', Before(e))[Before(e)]
                                  = PartSums(worked, Before(e))[Before(e)] + h
          /\ d \notin Before(e) => PartSums(worked', Before(e))[Before(e)]
                                     = PartSums(worked, Before(e))[Before(e)]
      <4>1. h \in Int /\ \A x \in Before(e) : worked[x] \in Int
        BY <1>3, <3>2
      <4>2. QED
        BY <3>1, <3>2, <4>1, SumsGrow
    <3>5. QED
      BY <3>3, <3>4, WeekBeforeIs, WeekBeforeIsAfter
  <2>2. \A e \in WeekDays : (d \in Before(e) <=> e > d) /\ (e <= d <=> ~(e > d))
    BY <1>3 DEF Before
  <2>3. QED
    BY <2>1, <2>2
<1>6. \A e \in WeekDays : e > day' => worked'[e] = 0
  BY <1>1, <1>2, <1>3, <1>4
<1>7. \A e \in WeekDays : e >= day' => week' = WeekBefore(e)' + worked'[e]
  <2>1. ASSUME NEW e \in WeekDays, e >= d
        PROVE  week' = WeekBefore(e)' + worked'[e]
    <3>1. week = WeekBefore(e) + worked[e] /\ WeekBefore(e) \in Nat /\ worked[e] \in Nat
      BY <1>1, <1>2, <1>3, <1>5, <2>1
    <3>2. CASE e = d
      <4>1. WeekBefore(e)' = WeekBefore(e)
        BY <1>3, <1>5, <3>2
      <4>2. QED
        BY <1>1, <1>3, <1>4, <3>1, <3>2, <4>1
    <3>3. CASE e # d
      <4>1. WeekBefore(e)' = WeekBefore(e) + h
        BY <1>3, <1>5, <2>1, <3>3
      <4>2. QED
        BY <1>1, <1>3, <1>4, <3>1, <3>3, <4>1
    <3>4. QED
      BY <3>2, <3>3
  <2>2. QED
    BY <1>1, <2>1
<1>8. b \in Nat /\ WeekBefore(d)' = b /\ week = b + w
  BY <1>1, <1>2, <1>3, <1>5
<1> DEFINE one == DoubleRoom(d, hair)
           both == Least(DoubleRoom(d, hair), OtRoom(d, hair))
           low == Fit(h, one)
           mid == Fit(h, both)
<1>9. /\ two = h - low /\ over = low - mid
      /\ low \in Nat /\ mid \in Nat /\ mid <= low /\ low <= h
  BY <1>3, SlicesCounted
<1>10. /\ one \in Nat /\ both \in Nat
       /\ one = Above(DailyDouble, w) \/ one = Above(DailyDouble, w + 1)
       /\ both = Above(RegularUntil(b), w) \/ both = Above(RegularUntil(b), w + 1)
       /\ hair = NoHair => /\ one = Above(DailyDouble, w)
                           /\ both = Least(one, Least(Above(DailyOt, w), Above(WeeklyOt, week)))
  <2>1. /\ DailyOt \in Nat /\ DailyDouble \in Nat /\ WeeklyOt \in Nat
        /\ hair.double \in {0, 1} /\ hair.ot \in {0, 1} /\ hair.week \in {0, 1}
        /\ hair = NoHair => hair.double = 0 /\ hair.ot = 0 /\ hair.week = 0
    BY OvertimeAssumption DEF Hairs, NoHair
  <2> HIDE DEF b
  <2>2. w + 0 = w /\ b + w + 0 = week /\ week + 0 = week
    BY <1>3, <1>8
  <2>3. one = Above(DailyDouble, w) \/ one = Above(DailyDouble, w + 1)
    BY <1>3, <2>1 DEF DoubleRoom
  <2>4. both = Above(RegularUntil(b), w) \/ both = Above(RegularUntil(b), w + 1)
    <3>1. /\ DoubleRoom(d, hair) = Above(DailyDouble, w + hair.double)
          /\ OtRoom(d, hair) = Least(Above(DailyOt, w + hair.ot), Above(WeeklyOt, week + hair.week))
      BY DEF DoubleRoom, OtRoom
    <3> HIDE DEF w
    <3>2. /\ Above(WeeklyOt, week + hair.week) = Above(Above(WeeklyOt, b), w + hair.week)
          /\ Above(WeeklyOt, b) \in Nat
      BY <1>3, <1>8, <2>1 DEF Above
    <3>3. both = Least(Above(DailyDouble, w + hair.double),
                       Least(Above(DailyOt, w + hair.ot), Above(Above(WeeklyOt, b), w + hair.week)))
      BY <3>1, <3>2
    <3> HIDE DEF both
    <3>4. QED
      <4>1. /\ DailyDouble \in Nat /\ DailyOt \in Nat /\ Above(WeeklyOt, b) \in Nat /\ w \in Nat
            /\ w + hair.double \in {w, w + 1} /\ w + hair.ot \in {w, w + 1}
            /\ w + hair.week \in {w, w + 1}
        BY <1>3, <2>1, <3>2
      <4>2. \/ both = Above(Least(DailyDouble, Least(DailyOt, Above(WeeklyOt, b))), w)
            \/ both = Above(Least(DailyDouble, Least(DailyOt, Above(WeeklyOt, b))), w + 1)
        BY <3>3, <4>1, RoomBelowThree
      <4>3. QED
        BY <4>2 DEF RegularUntil
  <2>5. ASSUME hair = NoHair
        PROVE  /\ one = Above(DailyDouble, w)
               /\ both = Least(one, Least(Above(DailyOt, w), Above(WeeklyOt, week)))
    BY <1>3, <2>1, <2>5 DEF DoubleRoom, OtRoom
  <2>6. one \in Nat /\ both \in Nat
    BY <1>3, <2>1 DEF DoubleRoom, OtRoom, Least, Above
  <2>7. QED
    BY <2>3, <2>4, <2>5, <2>6
<1> DEFINE Done == /\ split'[d] \in [regular : Nat, ot : Nat, double : Nat, holiday : Nat]
                   /\ IF d \in holidays
                      THEN split'[d] = [regular |-> 0, ot |-> 0, double |-> 0, holiday |-> worked'[d]]
                      ELSE NearSplit(split'[d], worked'[d], WeekBefore(d)')
                   /\ ~ragged' /\ WholeThresholds => split'[d] = DaySplit(d)'
<1>11. ASSUME d \in holidays
       PROVE  Done
  <2>1. split[d] = [regular |-> 0, ot |-> 0, double |-> 0, holiday |-> w]
    BY <1>2, <1>11
  <2>2. split' = [split EXCEPT ![d] = [split[d] EXCEPT !.holiday = split[d].holiday + h]]
    BY <1>1, <1>11
  <2>3. split'[d] = [split[d] EXCEPT !.holiday = split[d].holiday + h]
    BY <1>2, <2>2 DEF OtTypeOK
  <2>4. split'[d] = [regular |-> 0, ot |-> 0, double |-> 0, holiday |-> worked'[d]]
    BY <1>4, <2>1, <2>3
  <2>5. split'[d] = DaySplit(d)'
    BY <1>1, <1>11, <2>4, DaySplitIsAfter
  <2>6. split'[d] \in [regular : Nat, ot : Nat, double : Nat, holiday : Nat]
    BY <1>3, <1>4, <2>4
  <2>7. QED
    BY <1>11, <2>4, <2>5, <2>6
<1>12. ASSUME d \notin holidays
       PROVE  Done
  <2>1. /\ NearSplit(split[d], w, b)
        /\ split[d] \in [regular : Nat, ot : Nat, double : Nat, holiday : Nat]
    BY <1>2, <1>12 DEF OtTypeOK
  <2>2. split'[d] = [regular |-> split[d].regular + h - two - over, ot |-> split[d].ot + over,
                     double |-> split[d].double + two, holiday |-> 0]
    BY <1>1, <1>2, <1>12 DEF OtTypeOK
  <2>3. /\ split[d].regular \in Nat /\ split[d].ot \in Nat /\ split[d].double \in Nat
        /\ split[d].regular + split[d].ot + split[d].double = w
        /\ Capped(split[d].regular, w, RegularUntil(b))
        /\ Capped(w - split[d].double, w, DailyDouble)
    BY <2>1 DEF NearSplit
  <2> DEFINE s == split'[d]
  <2>4. /\ s.regular = split[d].regular + mid /\ s.ot = split[d].ot + (low - mid)
        /\ s.double = split[d].double + (h - low) /\ s.holiday = 0
        /\ s.regular \in Nat /\ s.ot \in Nat /\ s.double \in Nat
    <3> HIDE DEF two, over, low, mid
    <3>1. QED
      BY <1>3, <1>9, <2>2, <2>3
  <2>5. s \in [regular : Nat, ot : Nat, double : Nat, holiday : Nat]
    BY <2>2, <2>4
  <2>6. RegularUntil(b) \in Nat /\ DailyDouble \in Nat
    BY <1>8, OvertimeAssumption DEF RegularUntil, Least, Above
  <2>7. Capped(s.regular, w + h, RegularUntil(b))
    <3> HIDE DEF b, w, both
    <3>1. Capped(split[d].regular + Fit(h, both), w + h, RegularUntil(b))
      BY <1>3, <1>10, <2>3, <2>6, CappedGrows
    <3>2. QED
      BY <2>4, <3>1
  <2>8. Capped((w + h) - s.double, w + h, DailyDouble)
    <3> HIDE DEF b, w, one
    <3>1. w - split[d].double \in Nat
      BY <1>3, <2>3
    <3>2. Capped((w - split[d].double) + Fit(h, one), w + h, DailyDouble)
      BY <1>3, <1>10, <2>3, <2>6, <3>1, CappedGrows
    <3>3. (w + h) - s.double = (w - split[d].double) + Fit(h, one)
      BY <1>3, <1>9, <2>3, <2>4
    <3>4. QED
      BY <3>2, <3>3
  <2>9. s.regular + s.ot + s.double = w + h
    <3> HIDE DEF w, low, mid, s
    <3>1. QED
      BY <1>3, <1>9, <2>3, <2>4
  <2>10. NearSplit(s, worked'[d], WeekBefore(d)')
    BY <1>4, <1>8, <2>4, <2>7, <2>8, <2>9 DEF NearSplit
  <2>11. ASSUME ~ragged', WholeThresholds
         PROVE  s = DaySplit(d)'
    <3>1. /\ ~ragged /\ IsWhole(h) /\ hair = NoHair /\ split[d] = DaySplit(d)
          /\ IsWhole(week) /\ IsWhole(w)
      BY <1>1, <1>2, <2>11
    <3>2. split[d] = [regular |-> Regular(w, b), ot |-> Plain(w) - Regular(w, b),
                      double |-> w - Plain(w), holiday |-> 0]
      BY <1>12, <3>1, DaySplitIs
    <3>3. /\ IsWhole(one) /\ IsWhole(both)
          /\ both = Least(one, Least(Above(DailyOt, w), Above(WeeklyOt, week)))
          /\ one = Above(DailyDouble, w)
      <4>1. /\ one = Above(DailyDouble, w)
            /\ both = Least(one, Least(Above(DailyOt, w), Above(WeeklyOt, week)))
        BY <1>10, <3>1
      <4>2. /\ DailyOt \in Nat /\ DailyDouble \in Nat /\ WeeklyOt \in Nat
            /\ IsWhole(DailyOt) /\ IsWhole(DailyDouble) /\ IsWhole(WeeklyOt)
        BY <2>11, OvertimeAssumption DEF WholeThresholds
      <4> HIDE DEF w, one, both
      <4>3. /\ IsWhole(Above(DailyDouble, w)) /\ IsWhole(Above(DailyOt, w))
            /\ IsWhole(Above(WeeklyOt, week))
        BY <1>3, <3>1, <4>2, WholeNumbers
      <4>4. QED
        BY <4>1, <4>3 DEF Least
    <3>4. low = Least(h, one) /\ mid = Least(h, both)
      BY <1>3, <1>10, <3>3, FitBounds
    <3>5. mid = Least(low, Least(Above(DailyOt, w), Above(WeeklyOt, b + w)))
      <4>1. both = Least(one, Least(Above(DailyOt, w), Above(WeeklyOt, b + w)))
        BY <1>8, <3>3
      <4>2. /\ Above(DailyOt, w) \in Nat /\ Above(WeeklyOt, b + w) \in Nat
        BY <1>3, <1>8, OvertimeAssumption DEF Above
      <4> HIDE DEF low, mid, one, both, w, b
      <4>3. QED
        BY <1>3, <1>10, <3>4, <4>1, <4>2 DEF Least
    <3>6. low = Least(h, Above(DailyDouble, w))
      BY <3>3, <3>4
    <3>7. /\ Regular(w + h, b) = Regular(w, b) + h - (h - low) - (low - mid)
          /\ Plain(w + h) - Regular(w + h, b) = Plain(w) - Regular(w, b) + (low - mid)
          /\ (w + h) - Plain(w + h) = w - Plain(w) + (h - low)
      <4> HIDE DEF low, mid, w, b
      <4>1. QED
        BY <1>3, <1>8, <3>5, <3>6, SplitGrows
    <3>8. s = [regular |-> Regular(w + h, b), ot |-> Plain(w + h) - Regular(w + h, b),
               double |-> (w + h) - Plain(w + h), holiday |-> 0]
      <4>1. Regular(w, b) \in Nat
        BY <1>3, <1>8, SplitTypes
      <4>2. /\ s.regular = Regular(w + h, b) /\ s.ot = Plain(w + h) - Regular(w + h, b)
            /\ s.double = (w + h) - Plain(w + h) /\ s.holiday = 0
        <5> HIDE DEF low, mid, w, b, s
        <5>1. QED
          BY <1>3, <1>9, <2>4, <3>2, <3>7, <4>1
      <4>3. QED
        BY <2>2, <4>2
    <3>9. DaySplit(d)' = [regular |-> Regular(worked'[d], WeekBefore(d)'),
                          ot |-> Plain(worked'[d]) - Regular(worked'[d], WeekBefore(d)'),
                          double |-> worked'[d] - Plain(worked'[d]), holiday |-> 0]
      BY <1>1, <1>12, DaySplitIsAfter
    <3>10. worked'[d] = w + h /\ WeekBefore(d)' = b
      BY <1>4, <1>8
    <3> HIDE DEF s, w, b
    <3>11. QED
      BY <3>8, <3>9, <3>10
  <2>12. QED
    BY <1>12, <2>5, <2>10, <2>11
<1>13. Done
  BY <1>11, <1>12
<1>14. ASSUME NEW e \in WeekDays, e # d
       PROVE  /\ split'[e] \in [regular : Nat, ot : Nat, double : Nat, holiday : Nat]
              /\ IF e \in holidays
                 THEN split'[e] = [regular |-> 0, ot |-> 0, double |-> 0, holiday |-> worked'[e]]
                 ELSE NearSplit(split'[e], worked'[e], WeekBefore(e)')
              /\ ~ragged' /\ WholeThresholds => split'[e] = DaySplit(e)'
  <2>1. split'[e] = split[e] /\ worked'[e] = worked[e] /\ holidays' = holidays
    BY <1>1, <1>2, <1>4, <1>14 DEF OtTypeOK
  <2>2. split'[e] \in [regular : Nat, ot : Nat, double : Nat, holiday : Nat]
    BY <1>2, <2>1 DEF OtTypeOK
  <2>3. ~ragged' /\ WholeThresholds => split[e] = DaySplit(e)
    BY <1>1, <1>2
  <2>4. CASE e < d
    <3>1. WeekBefore(e)' = WeekBefore(e)
      BY <1>3, <1>5, <2>4
    <3>2. DaySplit(e)' = DaySplit(e)
      BY <2>1, <3>1, DaySplitIs, DaySplitIsAfter
    <3>3. QED
      BY <1>2, <2>1, <2>2, <2>3, <3>1, <3>2
  <2>5. CASE e > d
    <3>1. worked[e] = 0
      BY <1>1, <1>2, <1>3, <2>5
    <3>2. WeekBefore(e) \in Nat /\ WeekBefore(e)' \in Nat
      BY <1>3, <1>5, <2>5
    <3>3. \A x \in Nat : Regular(0, x) = 0 /\ Plain(0) = 0
      BY SplitTypes
    <3>4. DaySplit(e)' = DaySplit(e)
      BY <2>1, <3>1, <3>2, <3>3, DaySplitIs, DaySplitIsAfter
    <3>5. ASSUME e \notin holidays
          PROVE  NearSplit(split[e], 0, WeekBefore(e)')
      <4>1. NearSplit(split[e], 0, WeekBefore(e)) /\ split[e].regular \in Nat /\ split[e].double \in Nat
            /\ split[e].ot \in Nat
        BY <1>2, <3>1, <3>5 DEF OtTypeOK
      <4>2. split[e].regular = 0 /\ 0 - split[e].double = 0
        <5>1. split[e].regular + split[e].ot + split[e].double = 0
          BY <4>1 DEF NearSplit
        <5>2. \A x, y, z \in Nat : x + y + z = 0 => x = 0 /\ z = 0
          OBVIOUS
        <5>3. split[e].regular = 0 /\ split[e].double = 0
          BY <4>1, <5>1, <5>2
        <5>4. QED
          BY <5>3
      <4>3. RegularUntil(WeekBefore(e)') \in Nat
        BY <3>2, OvertimeAssumption DEF RegularUntil, Least, Above
      <4>4. Capped(0, 0, RegularUntil(WeekBefore(e)'))
        BY <4>3, OvertimeAssumption DEF Capped
      <4>5. QED
        BY <4>1, <4>2, <4>4 DEF NearSplit
    <3>6. QED
      BY <1>2, <2>1, <2>2, <2>3, <3>1, <3>4, <3>5
  <2>6. QED
    BY <1>3, <1>14, <2>4, <2>5
<1>15. ~ragged' => IsWhole(week') /\ \A e \in WeekDays : IsWhole(worked'[e])
  <2>1. ASSUME ~ragged'
        PROVE  IsWhole(week + h) /\ IsWhole(worked[d] + h)
    BY <1>1, <1>2, <1>3, <2>1, WholeNumbers
  <2>2. QED
    BY <1>1, <1>2, <1>4, <2>1
<1>16. OtTypeOK'
  <2>1. split' = [e \in WeekDays |-> split'[e]]
    BY <1>1, <1>2 DEF OtTypeOK
  <2>2. week' \in Nat /\ day' \in WeekDays /\ holidays' \subseteq WeekDays
    BY <1>1, <1>2, <1>3 DEF OtTypeOK
  <2>3. ragged' \in BOOLEAN
    BY <1>1
  <2>4. \A e \in WeekDays : split'[e] \in [regular : Nat, ot : Nat, double : Nat, holiday : Nat]
    BY <1>13, <1>14
  <2>5. QED
    BY <1>4, <2>1, <2>2, <2>3, <2>4 DEF OtTypeOK
<1>17. \A e \in WeekDays :
         /\ IF e \in holidays'
            THEN split'[e] = [regular |-> 0, ot |-> 0, double |-> 0, holiday |-> worked'[e]]
            ELSE NearSplit(split'[e], worked'[e], WeekBefore(e)')
         /\ ~ragged' /\ WholeThresholds => split'[e] = DaySplit(e)'
  BY <1>1, <1>13, <1>14
<1>18. NearSplit(split[d], worked[d], WeekBefore(d))' <=> NearSplit(split'[d], worked'[d], WeekBefore(d)')
  BY DEF NearSplit, Capped, RegularUntil
<1>19. WholeThresholds' <=> WholeThresholds
  BY DEF WholeThresholds, IsWhole
<1>20. QED
  BY <1>6, <1>7, <1>15, <1>16, <1>17, <1>19 DEF OtInv, IsWhole, NearSplit, Capped, RegularUntil

LEMMA OtInvStep == OtInv /\ [OtNext]_otVars => OtInv'
<1> SUFFICES ASSUME OtInv, [OtNext]_otVars
             PROVE  OtInv'
  OBVIOUS
<1>1. ASSUME NEW d \in WeekDays, NEW h \in Lengths, NEW hair \in Hairs, ApplyEntry(d, h, hair)
      PROVE  OtInv'
  BY <1>1, ApplyEntryKeeps
<1>2. CASE UNCHANGED otVars
  <2>1. UNCHANGED <<holidays, day, worked, week, split, ragged>>
    BY <1>2 DEF otVars
  <2>2. \A d : WeekBefore(d)' = WeekBefore(d)
    BY <2>1, WeekBeforeIs, WeekBeforeIsAfter
  <2>3. \A d : DaySplit(d)' = DaySplit(d)
    BY <2>1, <2>2, DaySplitIs, DaySplitIsAfter
  <2>4. OtTypeOK'
    BY <2>1 DEF OtInv, OtTypeOK
  <2>5. QED
    BY <2>1, <2>2, <2>3, <2>4
       DEF OtInv, NearSplit, Capped, RegularUntil, IsWhole, WholeThresholds
<1>3. QED
  BY <1>1, <1>2 DEF OtNext

(* For any thresholds, days, lengths of entries and size of a slice: the cuts of
   a day's work into entries move a slice at most, and nothing where everything
   is whole quarters (ot-policy.ts:85). *)
THEOREM CutsMovedASliceAtMost == OtSpec => []CutsMoveASliceAtMost
<1>1. OtInv => CutsMoveASliceAtMost
  <2> SUFFICES ASSUME OtInv, NEW d \in WeekDays
               PROVE  /\ split[d].regular + split[d].ot + split[d].double + split[d].holiday = worked[d]
                      /\ split[d].holiday = DaySplit(d).holiday
                      /\ split[d].regular \in (DaySplit(d).regular - Quarter)..DaySplit(d).regular
                      /\ split[d].double \in DaySplit(d).double..(DaySplit(d).double + Quarter)
                      /\ ~ragged /\ WholeThresholds => split[d] = DaySplit(d)
    BY DEF CutsMoveASliceAtMost
  <2>1. /\ IF d \in holidays
           THEN split[d] = [regular |-> 0, ot |-> 0, double |-> 0, holiday |-> worked[d]]
           ELSE NearSplit(split[d], worked[d], WeekBefore(d))
        /\ ~ragged /\ WholeThresholds => split[d] = DaySplit(d)
    BY DEF OtInv
  <2>2. /\ worked[d] \in Nat /\ split[d].regular \in Nat /\ split[d].double \in Nat
        /\ split[d].ot \in Nat
    BY DEF OtInv, OtTypeOK
  <2>3. Quarter \in Nat /\ DailyDouble \in Nat /\ DailyOt \in Nat /\ WeeklyOt \in Nat
    BY OvertimeAssumption
  <2>4. CASE d \in holidays
    <3>1. DaySplit(d) = [regular |-> 0, ot |-> 0, double |-> 0, holiday |-> worked[d]]
      BY <2>4, DaySplitIs
    <3>2. split[d] = DaySplit(d)
      BY <2>1, <2>4, <3>1
    <3>3. QED
      BY <2>2, <2>3, <3>1, <3>2
  <2>5. CASE d \notin holidays
    <3> DEFINE b == WeekBefore(d)
               w == worked[d]
               s == split[d]
    <3>1. /\ DaySplit(d).regular = Regular(w, b) /\ DaySplit(d).double = w - Plain(w)
          /\ DaySplit(d).holiday = 0
      BY <2>5, DaySplitIs
    <3>2. /\ s.holiday = 0 /\ s.regular + s.ot + s.double = w
          /\ Capped(s.regular, w, RegularUntil(b)) /\ Capped(w - s.double, w, DailyDouble)
      BY <2>1, <2>5 DEF NearSplit
    <3>3. b \in Nat
      BY WeekBeforeIsANumber DEF OtInv, OtTypeOK
    <3> HIDE DEF b
    <3>4. RegularUntil(b) \in Nat /\ Regular(w, b) = Least(w, RegularUntil(b))
      BY <2>2, <2>3, <3>3 DEF RegularUntil, Regular, Least, Above
    <3>5. s.regular \in (Regular(w, b) - Quarter)..Regular(w, b)
      BY <2>2, <2>3, <3>2, <3>4 DEF Capped, Least
    <3>6. s.double \in (w - Plain(w))..(w - Plain(w) + Quarter)
      BY <2>2, <2>3, <3>2 DEF Capped, Plain, Least
    <3>7. QED
      BY <2>1, <2>2, <3>1, <3>2, <3>5, <3>6
  <2>6. QED
    BY <2>4, <2>5
<1>2. QED
  BY <1>1, OtInvInit, OtInvStep, PTL DEF OtSpec

=============================================================================
