--------------------------- MODULE OptimizationProofs ---------------------------
(***************************************************************************)
(* Proofs about OptimizationController, for any number of slots, any       *)
(* budget and any number of crashes and relaunches: what the controller    *)
(* remembers is what the ledger says, the ledger says of ECC only what is  *)
(* so and refuses nothing, the budget is kept, only what was approved is   *)
(* started, recovery refuses only what the code leaves open, and the file  *)
(* is the promised log.                                                    *)
(***************************************************************************)
EXTENDS OptimizationController, FiniteSetTheorems, SequenceTheorems,
        WellFoundedInduction, TLAPS

(* What logs say *)

Logs == Seq(Log!Entry)

-----------------------------------------------------------------------------
(* Extremal elements *)

LEMMA SmallestExists ==
  ASSUME NEW S \in SUBSET Nat, S # {}
  PROVE  \E m \in S : \A k \in S : m <= k
  <1> DEFINE Less == OpToRel(<, Nat)
  <1>1. IsWellFoundedOn(Less, Nat)
    BY NatLessThanWellFounded
  <1>2. \A x, y \in Nat : <<x, y>> \in Less <=> x < y
    BY DEF OpToRel
  <1> HIDE DEF Less
  <1>3. PICK m \in S : \A k \in S : ~ (<<k, m>> \in Less)
    BY <1>1, WFMin
  <1>4. ASSUME NEW k \in S  PROVE m <= k
    <2>1. ~ (k < m)
      BY <1>2, <1>3
    <2> QED  BY <2>1
  <1> QED  BY <1>4

LEMMA LargestExists ==
  ASSUME NEW n \in Nat, NEW S \in SUBSET (0..n), S # {}
  PROVE  \E m \in S : \A k \in S : k <= m
  <1> DEFINE T == {k \in 0..n : n - k \in S}
  <1>1. PICK s \in S : TRUE
    OBVIOUS
  <1>2. n - s \in T /\ n - (n - s) = s
    BY <1>1
  <1>3. T \subseteq Nat /\ T # {}
    BY <1>2
  <1>4. \A k \in S : n - k \in T
    OBVIOUS
  <1>5. \A k \in T : k \in 0..n /\ n - k \in S
    OBVIOUS
  <1> HIDE DEF T
  <1>6. PICK m \in T : \A k \in T : m <= k
    BY <1>3, SmallestExists
  <1>7. ASSUME NEW k \in S  PROVE k <= n - m
    BY <1>4, <1>5, <1>6
  <1> QED  BY <1>5, <1>6, <1>7

-----------------------------------------------------------------------------
(* Entries and what a log says of its interventions *)

LEMMA EntryFields ==
  ASSUME NEW e \in Log!Entry
  PROVE  /\ e.kind \in {"start", "terminal"} /\ e.id \in Interventions
         /\ e.outcome \in {"none", "improved", "other", "indeterminate"}
         /\ e.kind = "start" => e.outcome = "none"
  BY DEF Log!Entry, Log!StartEntry, Log!TerminalEntry, Log!Outcomes

LEMMA StartIsEntry ==
  ASSUME NEW i \in Interventions
  PROVE  /\ Log!StartEntry(i) \in Log!Entry
         /\ Log!StartEntry(i).kind = "start" /\ Log!StartEntry(i).id = i
         /\ Log!StartEntry(i).outcome = "none"
  <1>1. Log!StartEntry(i) \in {Log!StartEntry(j) : j \in Interventions}
    OBVIOUS
  <1> QED  BY <1>1 DEF Log!Entry, Log!StartEntry

LEMMA TerminalIsEntry ==
  ASSUME NEW i \in Interventions, NEW o \in {"improved", "other", "indeterminate"}
  PROVE  /\ Log!TerminalEntry(i, o) \in Log!Entry
         /\ Log!TerminalEntry(i, o).kind = "terminal" /\ Log!TerminalEntry(i, o).id = i
         /\ Log!TerminalEntry(i, o).outcome = o
  <1>1. Log!TerminalEntry(i, o) \in
          {Log!TerminalEntry(j, p) : j \in Interventions, p \in Log!Outcomes}
    BY DEF Log!Outcomes
  <1>2. Log!TerminalEntry(i, o) \in Log!Entry
    BY <1>1 DEF Log!Entry
  <1>3. /\ Log!TerminalEntry(i, o).kind = "terminal" /\ Log!TerminalEntry(i, o).id = i
        /\ Log!TerminalEntry(i, o).outcome = o
    BY DEF Log!TerminalEntry
  <1> QED  BY <1>2, <1>3

LEMMA EntryAt ==
  ASSUME NEW l \in Logs, NEW n \in DOMAIN l
  PROVE  l[n] \in Log!Entry /\ n \in 1..Len(l)
  BY DEF Logs

LEMMA SaidOf ==
  ASSUME NEW l \in Logs
  PROVE  /\ Log!Started(l) \subseteq Interventions /\ Log!Answered(l) \subseteq Interventions
         /\ Log!Unanswered(l) \subseteq Interventions
  BY EntryAt, EntryFields DEF Log!Started, Log!Answered, Log!Unanswered

LEMMA FiniteInterventions ==
  ASSUME NEW S \in SUBSET Interventions
  PROVE  IsFiniteSet(S) /\ Cardinality(S) \in Nat /\ Cardinality(S) <= CandidateLimit
  <1>1. CandidateLimit \in Nat
    BY ControllerAssumption
  <1>2. IsFiniteSet(1..CandidateLimit) /\ Cardinality(1..CandidateLimit) <= CandidateLimit
    BY <1>1, FS_Interval
  <1>3. IsFiniteSet(S) /\ Cardinality(S) <= Cardinality(1..CandidateLimit)
    BY <1>2, FS_Subset DEF Interventions
  <1>4. Cardinality(S) \in Nat /\ Cardinality(1..CandidateLimit) \in Nat
    BY <1>2, <1>3, FS_CardinalityType
  <1> QED  BY <1>1, <1>2, <1>3, <1>4

LEMMA LastPromoted ==
  ASSUME NEW l \in Logs, Log!Promoted(l) # {}
  PROVE  \E n \in Log!Promoted(l) : /\ \A m \in Log!Promoted(l) : m <= n
                                    /\ Log!Incumbent(l) = l[n].id
                                    /\ l[n].id \in Interventions
  <1>1. Len(l) \in Nat /\ Log!Promoted(l) \subseteq 0..Len(l)
    BY EntryAt DEF Log!Promoted, Logs
  <1>2. \E n \in Log!Promoted(l) : \A m \in Log!Promoted(l) : m <= n
    BY <1>1, LargestExists
  <1> DEFINE n == CHOOSE k \in Log!Promoted(l) : \A m \in Log!Promoted(l) : m <= k
  <1>3. n \in Log!Promoted(l) /\ \A m \in Log!Promoted(l) : m <= n
    BY <1>2
  <1>4. Log!Incumbent(l) = l[n].id
    BY DEF Log!Incumbent
  <1>5. l[n].id \in Interventions
    BY <1>3, EntryAt, EntryFields DEF Log!Promoted
  <1> QED  BY <1>3, <1>4, <1>5

LEMMA IncumbentIs ==
  ASSUME NEW l \in Logs, NEW n \in Log!Promoted(l), \A m \in Log!Promoted(l) : m <= n
  PROVE  Log!Incumbent(l) = l[n].id
  <1>1. PICK k \in Log!Promoted(l) : /\ \A m \in Log!Promoted(l) : m <= k
                                     /\ Log!Incumbent(l) = l[k].id
    BY LastPromoted
  <1>2. k = n
    <2>1. k \in Nat /\ n \in Nat
      BY EntryAt DEF Log!Promoted, Logs
    <2> QED  BY <1>1, <2>1
  <1> QED  BY <1>1, <1>2

LEMMA IncumbentType ==
  ASSUME NEW l \in Logs
  PROVE  Log!Incumbent(l) \in Interventions \union {0}
  BY LastPromoted DEF Log!Incumbent

-----------------------------------------------------------------------------
(* One entry more *)

LEMMA Appended ==
  ASSUME NEW l \in Logs, NEW e \in Log!Entry
  PROVE  /\ Append(l, e) \in Logs /\ Len(l) \in Nat /\ Len(Append(l, e)) = Len(l) + 1
         /\ DOMAIN l = 1..Len(l) /\ DOMAIN Append(l, e) = 1..(Len(l) + 1)
         /\ Append(l, e)[Len(l) + 1] = e
         /\ \A n \in 1..Len(l) : Append(l, e)[n] = l[n]
         /\ Append(l, e) = l \o <<e>>
  BY AppendProperties, AppendIsConcat, LenProperties DEF Logs

LEMMA AppendedSays ==
  ASSUME NEW l \in Logs, NEW e \in Log!Entry
  PROVE  /\ Log!Started(Append(l, e)) =
              Log!Started(l) \union (IF e.kind = "start" THEN {e.id} ELSE {})
         /\ Log!Answered(Append(l, e)) =
              Log!Answered(l) \union (IF e.kind = "terminal" THEN {e.id} ELSE {})
  <1>1. \A n \in DOMAIN Append(l, e) : n \in DOMAIN l \/ n = Len(l) + 1
    BY Appended
  <1>2. \A n \in DOMAIN l : n \in DOMAIN Append(l, e) /\ Append(l, e)[n] = l[n]
    BY Appended
  <1>3. Len(l) + 1 \in DOMAIN Append(l, e) /\ Append(l, e)[Len(l) + 1] = e
    BY Appended
  <1> HIDE DEF Logs
  <1>4. Log!Started(Append(l, e)) =
              Log!Started(l) \union (IF e.kind = "start" THEN {e.id} ELSE {})
    BY <1>1, <1>2, <1>3 DEF Log!Started
  <1>5. Log!Answered(Append(l, e)) =
              Log!Answered(l) \union (IF e.kind = "terminal" THEN {e.id} ELSE {})
    BY <1>1, <1>2, <1>3 DEF Log!Answered
  <1> QED  BY <1>4, <1>5

LEMMA AppendedIncumbent ==
  ASSUME NEW l \in Logs, NEW e \in Log!Entry
  PROVE  Log!Incumbent(Append(l, e)) = IF e.outcome = "improved" THEN e.id
                                                                 ELSE Log!Incumbent(l)
  <1> DEFINE k == Append(l, e)
  <1>1. /\ k \in Logs /\ Len(l) \in Nat /\ DOMAIN l = 1..Len(l)
        /\ DOMAIN k = 1..(Len(l) + 1) /\ k[Len(l) + 1] = e
        /\ \A n \in 1..Len(l) : k[n] = l[n]
    BY Appended
  <1> HIDE DEF k
  <1>2. CASE e.outcome = "improved"
    <2>1. Len(l) + 1 \in Log!Promoted(k) /\ \A m \in Log!Promoted(k) : m <= Len(l) + 1
      BY <1>1, <1>2 DEF Log!Promoted
    <2>2. Log!Incumbent(k) = k[Len(l) + 1].id
      BY <1>1, <2>1, IncumbentIs
    <2> QED  BY <1>1, <1>2, <2>2 DEF k
  <1>3. CASE e.outcome # "improved"
    <2>1. Log!Promoted(k) = Log!Promoted(l)
      <3>1. ASSUME NEW n \in DOMAIN k, k[n].outcome = "improved"
            PROVE  n \in DOMAIN l /\ l[n].outcome = "improved"
        BY <1>1, <1>3, <3>1
      <3>2. ASSUME NEW n \in DOMAIN l
            PROVE  n \in DOMAIN k /\ k[n] = l[n]
        BY <1>1
      <3> QED  BY <3>1, <3>2 DEF Log!Promoted
    <2>2. CASE Log!Promoted(l) = {}
      BY <1>3, <2>1, <2>2 DEF Log!Incumbent, k
    <2>3. CASE Log!Promoted(l) # {}
      <3>1. PICK n \in Log!Promoted(l) : /\ \A m \in Log!Promoted(l) : m <= n
                                         /\ Log!Incumbent(l) = l[n].id
        BY <2>3, LastPromoted
      <3>2. Log!Incumbent(k) = k[n].id
        BY <1>1, <2>1, <3>1, IncumbentIs
      <3>3. n \in 1..Len(l)
        BY EntryAt DEF Log!Promoted
      <3> QED  BY <1>1, <1>3, <3>1, <3>2, <3>3 DEF k
    <2> QED  BY <2>2, <2>3
  <1> QED  BY <1>2, <1>3

-----------------------------------------------------------------------------
(* A prefix and what follows it *)

LEMMA Split ==
  ASSUME NEW l \in Logs, NEW c \in 0..Len(l)
  PROVE  LET p == SubSeq(l, 1, c)
             s == SubSeq(l, c + 1, Len(l))
         IN /\ p \in Logs /\ s \in Logs /\ DOMAIN p = 1..c /\ DOMAIN s = 1..(Len(l) - c)
            /\ Len(p) = c /\ Len(s) = Len(l) - c
            /\ DOMAIN l = 1..Len(l)
            /\ \A n \in 1..c : p[n] = l[n]
            /\ \A n \in 1..(Len(l) - c) : s[n] = l[c + n] /\ c + n \in 1..Len(l)
  <1>1. Len(l) \in Nat /\ DOMAIN l = 1..Len(l) /\ \A n \in 1..Len(l) : l[n] \in Log!Entry
    BY LenProperties DEF Logs
  <1> DEFINE p == SubSeq(l, 1, c)
             s == SubSeq(l, c + 1, Len(l))
  <1>2. /\ p \in Logs /\ Len(p) = c /\ \A n \in 1..c : p[n] = l[n]
    <2>1. \A i \in 1..c : l[i] \in Log!Entry
      BY <1>1
    <2>2. /\ p \in Seq(Log!Entry) /\ Len(p) = (IF 1 <= c THEN c - 1 + 1 ELSE 0)
          /\ \A i \in 1..(c - 1 + 1) : p[i] = l[1 + i - 1]
      BY <1>1, <2>1, SubSeqProperties
    <2>3. \A i \in 1..c : i \in 1..(c - 1 + 1) /\ 1 + i - 1 = i
      BY <1>1
    <2>4. (IF 1 <= c THEN c - 1 + 1 ELSE 0) = c
      BY <1>1
    <2> HIDE DEF p
    <2> QED  BY <2>2, <2>3, <2>4 DEF Logs
  <1>3. /\ s \in Logs /\ Len(s) = Len(l) - c
        /\ \A n \in 1..(Len(l) - c) : s[n] = l[c + n] /\ c + n \in 1..Len(l)
    <2>1. \A i \in c + 1..Len(l) : l[i] \in Log!Entry
      BY <1>1
    <2>2. /\ s \in Seq(Log!Entry)
          /\ Len(s) = (IF c + 1 <= Len(l) THEN Len(l) - (c + 1) + 1 ELSE 0)
          /\ \A i \in 1..(Len(l) - (c + 1) + 1) : s[i] = l[(c + 1) + i - 1]
      BY <1>1, <2>1, SubSeqProperties
    <2>3. \A i \in 1..(Len(l) - c) : /\ i \in 1..(Len(l) - (c + 1) + 1)
                                     /\ (c + 1) + i - 1 = c + i /\ c + i \in 1..Len(l)
      <3>1. Len(l) \in Nat
        BY <1>1
      <3> QED  BY <3>1
    <2>4. (IF c + 1 <= Len(l) THEN Len(l) - (c + 1) + 1 ELSE 0) = Len(l) - c
      <3>1. Len(l) \in Nat /\ c \in Nat /\ c <= Len(l)
        BY <1>1
      <3>2. CASE c + 1 <= Len(l)
        BY <3>1, <3>2
      <3>3. CASE ~(c + 1 <= Len(l))
        BY <3>1, <3>3
      <3> QED  BY <3>2, <3>3
    <2> HIDE DEF s
    <2> QED  BY <2>2, <2>3, <2>4 DEF Logs
  <1>4. DOMAIN p = 1..c /\ DOMAIN s = 1..(Len(l) - c)
    BY <1>2, <1>3, LenProperties DEF Logs
  <1> QED  BY <1>1, <1>2, <1>3, <1>4

LEMMA SplitSays ==
  ASSUME NEW l \in Logs, NEW c \in 0..Len(l)
  PROVE  LET p == SubSeq(l, 1, c)
             s == SubSeq(l, c + 1, Len(l))
         IN /\ Log!Started(l) = Log!Started(p) \union Log!Started(s)
            /\ Log!Answered(l) = Log!Answered(p) \union Log!Answered(s)
  <1> DEFINE p == SubSeq(l, 1, c)
             s == SubSeq(l, c + 1, Len(l))
  <1>0. Len(l) \in Nat
    BY DEF Logs
  <1>1. \A n \in DOMAIN p : n \in DOMAIN l /\ l[n] = p[n]
    BY <1>0, Split
  <1>2. \A n \in DOMAIN s : c + n \in DOMAIN l /\ l[c + n] = s[n]
    BY <1>0, Split
  <1>3. ASSUME NEW n \in DOMAIN l
        PROVE  (n \in DOMAIN p /\ l[n] = p[n]) \/ (n - c \in DOMAIN s /\ l[n] = s[n - c])
    <2>1. n \in 1..c \/ (n - c \in 1..(Len(l) - c) /\ c + (n - c) = n)
      BY <1>0, Split
    <2> QED  BY <2>1, Split
  <1> HIDE DEF p, s
  <1>4. Log!Started(l) = Log!Started(p) \union Log!Started(s)
    BY <1>1, <1>2, <1>3 DEF Log!Started
  <1>5. Log!Answered(l) = Log!Answered(p) \union Log!Answered(s)
    BY <1>1, <1>2, <1>3 DEF Log!Answered
  <1> QED  BY <1>4, <1>5 DEF p, s

LEMMA SplitIncumbent ==
  ASSUME NEW l \in Logs, NEW c \in 0..Len(l)
  PROVE  LET p == SubSeq(l, 1, c)
             s == SubSeq(l, c + 1, Len(l))
         IN Log!Incumbent(l) = IF Log!Promoted(s) = {} THEN Log!Incumbent(p)
                                                       ELSE Log!Incumbent(s)
  <1> DEFINE p == SubSeq(l, 1, c)
             s == SubSeq(l, c + 1, Len(l))
  <1>0. Len(l) \in Nat /\ c \in Nat /\ p \in Logs /\ s \in Logs
    BY Split DEF Logs
  <1>1. \A n \in Log!Promoted(l) :
          n \in 1..Len(l) /\ (n \in Log!Promoted(p) \/ n - c \in Log!Promoted(s))
    <2>1. ASSUME NEW n \in Log!Promoted(l)
          PROVE  n \in 1..Len(l) /\ (n \in Log!Promoted(p) \/ n - c \in Log!Promoted(s))
      <3>1. n \in 1..Len(l) /\ l[n].outcome = "improved"
        BY Split DEF Log!Promoted
      <3>2. n \in 1..c \/ (n - c \in 1..(Len(l) - c) /\ c + (n - c) = n)
        BY <1>0, <3>1
      <3> QED  BY <3>1, <3>2, Split DEF Log!Promoted
    <2> QED  BY <2>1
  <1>2. \A n \in Log!Promoted(p) : n \in 1..c /\ n \in Log!Promoted(l) /\ l[n] = p[n]
    BY <1>0, Split DEF Log!Promoted
  <1>3. \A n \in Log!Promoted(s) : n \in 1..(Len(l) - c) /\ c + n \in Log!Promoted(l)
                                   /\ l[c + n] = s[n]
    BY <1>0, Split DEF Log!Promoted
  <1> HIDE DEF p, s
  <1>4. CASE Log!Promoted(s) # {}
    <2>1. PICK n \in Log!Promoted(s) : /\ \A m \in Log!Promoted(s) : m <= n
                                       /\ Log!Incumbent(s) = s[n].id
      BY <1>0, <1>4, LastPromoted
    <2>2. ASSUME NEW m \in Log!Promoted(l)  PROVE m <= c + n
      <3>1. n \in Nat /\ m \in Nat
        BY <1>0, <1>1, <1>3, <2>1
      <3>2. CASE m \in Log!Promoted(p)
        BY <1>0, <1>2, <3>1, <3>2
      <3>3. CASE m - c \in Log!Promoted(s)
        BY <1>0, <2>1, <3>1, <3>3
      <3> QED  BY <1>1, <3>2, <3>3
    <2>3. Log!Incumbent(l) = l[c + n].id
      BY <1>3, <2>1, <2>2, IncumbentIs
    <2> QED  BY <1>3, <1>4, <2>1, <2>3 DEF p, s
  <1>5. CASE Log!Promoted(s) = {} /\ Log!Promoted(p) # {}
    <2>1. PICK n \in Log!Promoted(p) : /\ \A m \in Log!Promoted(p) : m <= n
                                       /\ Log!Incumbent(p) = p[n].id
      BY <1>0, <1>5, LastPromoted
    <2>2. Log!Incumbent(l) = l[n].id
      BY <1>1, <1>2, <1>5, <2>1, IncumbentIs
    <2> QED  BY <1>2, <1>5, <2>1, <2>2 DEF p, s
  <1>6. CASE Log!Promoted(s) = {} /\ Log!Promoted(p) = {}
    <2>1. Log!Promoted(l) = {}
      BY <1>1, <1>6
    <2> QED  BY <1>6, <2>1 DEF Log!Incumbent, p, s
  <1> QED  BY <1>4, <1>5, <1>6

LEMMA PrefixKept ==
  ASSUME NEW l \in Logs, NEW e \in Log!Entry, NEW c \in 0..Len(l)
  PROVE  SubSeq(Append(l, e), 1, c) = SubSeq(l, 1, c)
  <1> DEFINE k == Append(l, e)
             p == SubSeq(l, 1, c)
             q == SubSeq(k, 1, c)
  <1>1. k \in Logs /\ Len(l) \in Nat /\ Len(k) = Len(l) + 1 /\ \A n \in 1..Len(l) : k[n] = l[n]
    BY Appended
  <1>2. p \in Logs /\ Len(p) = c /\ \A n \in 1..c : p[n] = l[n]
    BY Split
  <1>3. c \in 0..Len(k)
    BY <1>1
  <1>4. q \in Logs /\ Len(q) = c /\ \A n \in 1..c : q[n] = k[n]
    BY <1>1, <1>3, Split
  <1>5. \A n \in 1..c : p[n] = q[n]
    BY <1>1, <1>2, <1>4
  <1> HIDE DEF p, q
  <1>6. p = q
    BY <1>2, <1>4, <1>5, SeqEqual DEF Logs
  <1> QED  BY <1>6 DEF p, q
-----------------------------------------------------------------------------
(* The invariant of the controller *)

Count(l) == Cardinality(Log!Started(l))

(* An entry that may follow l: it is accepted, a start takes the next key,  *)
(* and there is a slot for it.                                              *)
Fits(l, e) ==
  /\ Log!Accepts(l, e)
  /\ e.kind = "start" => e.id = Count(l) + 1
  /\ Cardinality(Log!Unanswered(Append(l, e))) <= Slots

(* Every outcome is after the one start of its candidate and is the only    *)
(* one; the candidates are numbered; the slots suffice.                     *)
Ordered(l) ==
  \A n \in DOMAIN l : l[n].kind = "terminal" =>
    /\ \E m \in 1..(n - 1) : l[m].kind = "start" /\ l[m].id = l[n].id
    /\ \A m \in 1..(n - 1) : l[m].kind = "terminal" => l[m].id # l[n].id
WellKept(l) ==
  /\ l \in Logs /\ Ordered(l)
  /\ Log!Started(l) = 1..Count(l)
  /\ Cardinality(Log!Unanswered(l)) <= Slots

(* The controller c has seen l and no more.                                 *)
Says(c, l) == /\ c.pending = Log!Unanswered(l) /\ c.consumed = Count(l)
              /\ c.incumbent = Log!Incumbent(l)

SnapOK == snap.count \in 0..Len(ledger) /\ Says(snap.ctl, SubSeq(ledger, 1, snap.count))
EntryOK == IF pc = "append" THEN \E e \in Log!Entry : entry = <<e>> /\ Fits(ledger, e)
                            ELSE entry = <<>>
TailOK == tail # <<>> => pc = "down" /\ Fits(ledger, tail[1].entry)
UnconfirmedOK ==
  pc = "unconfirmed" => /\ Len(ledger) > 0 /\ ledger[Len(ledger)].kind = "start"
                        /\ ledger[Len(ledger)].id \in Log!Unanswered(ledger)

(* Where a candidate may be started next there is a slot for it.            *)
Starting == {"ask", "repair", "askRepair", "dispatch", "execute"}
RoomOK == /\ (pc \in Starting \/ (pc = "persist" /\ next \in Starting)) => HasSlot(ctl)
          /\ pc \in {"append", "unconfirmed", "record"} => next \notin Starting
          /\ next \notin {"append", "down", "unrecoverable", "unconfirmed"}

OpsOK == \A i \in Interventions : ops[i] # "none" => i <= NextIntervention

IInv == /\ TypeOK /\ WellKept(ledger) /\ SnapOK /\ EntryOK /\ TailOK
        /\ MemoryMatchesLedger /\ UnconfirmedOK /\ RoomOK /\ OpsOK
        /\ OnlyGapsAreRefused

-----------------------------------------------------------------------------
(* Facts about logs *)

LEMMA CountType ==
  ASSUME NEW l \in Logs
  PROVE  /\ Count(l) \in 0..CandidateLimit /\ IsFiniteSet(Log!Started(l))
         /\ Cardinality(Log!Unanswered(l)) \in Nat /\ IsFiniteSet(Log!Unanswered(l))
  BY SaidOf, FiniteInterventions, ControllerAssumption DEF Count

LEMMA EmptyLog ==
  /\ <<>> \in Logs /\ Log!Started(<<>>) = {} /\ Log!Unanswered(<<>>) = {}
  /\ Log!Incumbent(<<>>) = 0 /\ Count(<<>>) = 0 /\ WellKept(<<>>)
  <1>1. <<>> \in Logs /\ DOMAIN <<>> = {}
    BY EmptySeq DEF Logs
  <1>2. Log!Started(<<>>) = {} /\ Log!Unanswered(<<>>) = {}
    BY <1>1 DEF Log!Started, Log!Unanswered
  <1>3. Log!Incumbent(<<>>) = 0
    BY <1>1 DEF Log!Incumbent, Log!Promoted
  <1>4. Count(<<>>) = 0 /\ Cardinality(Log!Unanswered(<<>>)) = 0
    BY <1>2, FS_EmptySet DEF Count
  <1>5. Ordered(<<>>)
    BY <1>1 DEF Ordered
  <1>6. Log!Started(<<>>) = 1..Count(<<>>) /\ 0 <= Slots
    BY <1>2, <1>4, ControllerAssumption
  <1> QED  BY <1>1, <1>2, <1>3, <1>4, <1>5, <1>6 DEF WellKept

LEMMA AppendedCount ==
  ASSUME NEW l \in Logs, NEW e \in Log!Entry, Log!Accepts(l, e)
  PROVE  Count(Append(l, e)) = IF e.kind = "start" THEN Count(l) + 1 ELSE Count(l)
  <1>1. IsFiniteSet(Log!Started(l))
    BY CountType
  <1>2. CASE e.kind = "start"
    <2>1. e.id \notin Log!Started(l) /\ Log!Started(Append(l, e)) = Log!Started(l) \union {e.id}
      BY <1>2, AppendedSays DEF Log!Accepts
    <2> QED  BY <1>1, <1>2, <2>1, FS_AddElement DEF Count
  <1>3. CASE e.kind # "start"
    <2>1. Log!Started(Append(l, e)) = Log!Started(l)
      BY <1>3, AppendedSays
    <2> QED  BY <1>3, <2>1 DEF Count
  <1> QED  BY <1>2, <1>3

LEMMA AppendedKept ==
  ASSUME NEW l, WellKept(l), NEW e \in Log!Entry, Fits(l, e)
  PROVE  WellKept(Append(l, e))
  <1> DEFINE k == Append(l, e)
  <1>1. /\ l \in Logs /\ k \in Logs /\ Len(l) \in Nat /\ DOMAIN l = 1..Len(l)
        /\ DOMAIN k = 1..(Len(l) + 1) /\ k[Len(l) + 1] = e
        /\ \A n \in 1..Len(l) : k[n] = l[n]
    BY Appended DEF WellKept
  <1>2. Log!Started(k) = 1..Count(k)
    <2>1. Count(l) \in Nat /\ Log!Started(l) = 1..Count(l)
      BY <1>1, CountType DEF WellKept
    <2>2. Count(k) = IF e.kind = "start" THEN Count(l) + 1 ELSE Count(l)
      BY <1>1, AppendedCount DEF Fits
    <2>3. Log!Started(k) = Log!Started(l) \union (IF e.kind = "start" THEN {Count(l) + 1} ELSE {})
      BY <1>1, AppendedSays DEF Fits
    <2> HIDE DEF k
    <2>4. CASE e.kind = "start"
      BY <2>1, <2>2, <2>3, <2>4
    <2>5. CASE e.kind # "start"
      BY <2>1, <2>2, <2>3, <2>5
    <2> QED  BY <2>4, <2>5
  <1>3. Ordered(k)
    <2> SUFFICES ASSUME NEW n \in DOMAIN k, k[n].kind = "terminal"
                 PROVE  /\ \E m \in 1..(n - 1) : k[m].kind = "start" /\ k[m].id = k[n].id
                        /\ \A m \in 1..(n - 1) : k[m].kind = "terminal" => k[m].id # k[n].id
      BY DEF Ordered
    <2> HIDE DEF k
    <2>1. CASE n \in DOMAIN l
      <3>1. \A m \in 1..(n - 1) : k[m] = l[m]
        BY <1>1, <2>1
      <3>2. k[n] = l[n] /\ Ordered(l)
        BY <1>1, <2>1 DEF WellKept
      <3> QED  BY <2>1, <3>1, <3>2 DEF Ordered
    <2>2. CASE n \notin DOMAIN l
      <3>1. n = Len(l) + 1 /\ k[n] = e /\ n - 1 = Len(l)
        BY <1>1, <2>2
      <3>2. e.id \in Log!Started(l) /\ e.id \notin Log!Answered(l)
        BY <3>1 DEF Fits, Log!Accepts, Log!Unanswered
      <3>3. \E m \in DOMAIN l : l[m].kind = "start" /\ l[m].id = e.id
        BY <3>2 DEF Log!Started
      <3>4. \A m \in DOMAIN l : l[m].kind = "terminal" => l[m].id # e.id
        BY <3>2 DEF Log!Answered
      <3> QED  BY <1>1, <3>1, <3>3, <3>4
    <2> QED  BY <2>1, <2>2
  <1> QED  BY <1>1, <1>2, <1>3 DEF WellKept, Fits

(* What the controller must remember after an entry.                        *)
LEMMA AppendedMemory ==
  ASSUME NEW l, WellKept(l), NEW e \in Log!Entry, Log!Accepts(l, e)
  PROVE  /\ Log!Unanswered(Append(l, e)) = IF e.kind = "start" THEN Log!Unanswered(l) \union {e.id}
                                                            ELSE Log!Unanswered(l) \ {e.id}
         /\ Count(Append(l, e)) = IF e.kind = "start" THEN Count(l) + 1 ELSE Count(l)
         /\ Log!Incumbent(Append(l, e)) = IF e.outcome = "improved" THEN e.id
                                                                    ELSE Log!Incumbent(l)
  <1>1. l \in Logs
    BY DEF WellKept
  <1>2. e.kind \in {"start", "terminal"}
    BY EntryFields
  <1>3. Log!Answered(l) \subseteq Log!Started(l)
    <2> SUFFICES ASSUME NEW n \in DOMAIN l, l[n].kind = "terminal"
                 PROVE  l[n].id \in Log!Started(l)
      BY DEF Log!Answered
    <2>1. PICK m \in 1..(n - 1) : l[m].kind = "start" /\ l[m].id = l[n].id
      BY DEF WellKept, Ordered
    <2>2. m \in DOMAIN l
      <3>1. DOMAIN l = 1..Len(l) /\ Len(l) \in Nat
        BY <1>1, LenProperties DEF Logs
      <3> QED  BY <2>1, <3>1
    <2> QED  BY <2>1, <2>2 DEF Log!Started
  <1>4. Log!Unanswered(Append(l, e)) = IF e.kind = "start" THEN Log!Unanswered(l) \union {e.id}
                                                          ELSE Log!Unanswered(l) \ {e.id}
    <2>1. CASE e.kind = "start"
      BY <1>1, <1>3, <2>1, AppendedSays DEF Log!Unanswered, Log!Accepts
    <2>2. CASE e.kind = "terminal"
      BY <1>1, <2>2, AppendedSays DEF Log!Unanswered
    <2> QED  BY <1>2, <2>1, <2>2
  <1> QED  BY <1>1, <1>4, AppendedCount, AppendedIncumbent

LEMMA SaysAppended ==
  ASSUME NEW l, WellKept(l), NEW e \in Log!Entry, Log!Accepts(l, e), NEW c, NEW d, Says(c, l),
         d.pending = IF e.kind = "start" THEN c.pending \union {e.id} ELSE c.pending \ {e.id},
         d.consumed = IF e.kind = "start" THEN c.consumed + 1 ELSE c.consumed,
         d.incumbent = IF e.outcome = "improved" THEN e.id ELSE c.incumbent
  PROVE  Says(d, Append(l, e))
  BY AppendedMemory DEF Says

-----------------------------------------------------------------------------
(* The initial state *)

LEMMA NewIsController == NewController \in Controller
  BY ControllerAssumption DEF NewController, Controller, States

LEMMA InitIInv == Init => IInv
  <1> SUFFICES ASSUME Init PROVE IInv  OBVIOUS
  <1>1. TypeOK
    <2>1. <<>> \in Seq(Log!Entry)
      BY EmptyLog DEF Logs
    <2>2. snap \in [ctl : Controller, count : Nat] /\ ctl \in Controller
      BY NewIsController DEF Init
    <2>3. launches \in 0..MaxLaunches
      BY ControllerAssumption DEF Init
    <2> QED  BY <2>1, <2>2, <2>3 DEF Init, TypeOK, PCs
  <1>2. Says(NewController, <<>>)
    BY EmptyLog DEF Says, NewController
  <1>3. SubSeq(<<>>, 1, 0) = <<>> /\ Len(<<>>) = 0
    BY SubSeqEmpty
  <1>4. WellKept(ledger) /\ SnapOK
    <2>1. ledger = <<>> /\ snap.ctl = NewController /\ snap.count = 0
      BY DEF Init
    <2>2. SubSeq(ledger, 1, snap.count) = <<>>
      BY <1>3, <2>1
    <2>3. WellKept(ledger)
      BY <2>1, EmptyLog
    <2>4. snap.count \in 0..Len(ledger)
      BY <1>3, <2>1
    <2>5. Says(snap.ctl, SubSeq(ledger, 1, snap.count))
      BY <1>2, <2>1, <2>2
    <2> QED  BY <2>3, <2>4, <2>5 DEF SnapOK
  <1>5. EntryOK /\ TailOK /\ UnconfirmedOK /\ RoomOK /\ OpsOK /\ OnlyGapsAreRefused
    BY DEF Init, EntryOK, TailOK, UnconfirmedOK, RoomOK, OpsOK, OnlyGapsAreRefused,
           Starting
  <1>6. MemoryMatchesLedger
    BY <1>2 DEF Init, MemoryMatchesLedger, Written, Says, Count
  <1> QED  BY <1>1, <1>4, <1>5, <1>6 DEF IInv

-----------------------------------------------------------------------------
(* Steps that write nothing to the ledger *)

Special == {"append", "unconfirmed", "down", "unrecoverable"}
SameMemory == /\ ctl'.pending = ctl.pending /\ ctl'.consumed = ctl.consumed
              /\ ctl'.incumbent = ctl.incumbent
FlagsOK == /\ stop \in BOOLEAN /\ paused \in BOOLEAN /\ held \in BOOLEAN
           /\ drain \in BOOLEAN /\ wasPaused \in BOOLEAN

(* The thread goes from one plain step to another.                          *)
Moves ==
  /\ pc \notin Special \union {"ended"} /\ pc' \in PCs \ Special /\ next' \in PCs
  /\ ctl' \in Controller /\ SameMemory
  /\ reply' = reply /\ phase' \in {"none", "completed", "stopped", "interrupted", "quarantined", "error"}
  /\ UNCHANGED <<entry, ledger, tail, snap, launches>>
  /\ auditAhead' \in BOOLEAN /\ cases' \in {"none", "pooled", "torn"} /\ FlagsOK'
  /\ ops' \in [Interventions -> {"none", "running", "cancelling", "succeeded", "failed"}]
  /\ \A i \in Interventions : ops'[i] # "none" => ops[i] # "none"

LEMMA MovesKeeps ==
  ASSUME IInv, Moves, RoomOK'
  PROVE  IInv'
  <1>1. TypeOK'
    BY DEF IInv, TypeOK, Moves, FlagsOK
  <1>2. WellKept(ledger)' /\ SnapOK'
    BY DEF IInv, Moves, SnapOK
  <1>3. EntryOK' /\ TailOK' /\ UnconfirmedOK'
    BY DEF IInv, Moves, Special, EntryOK, TailOK, UnconfirmedOK
  <1>4. MemoryMatchesLedger'
    <2>1. Alive /\ Written = ledger /\ Written' = ledger'
      BY DEF Moves, Special, Written, Alive
    <2>2. ledger' = ledger /\ SameMemory
      BY DEF Moves
    <2> QED  BY <2>1, <2>2 DEF IInv, SameMemory, MemoryMatchesLedger
  <1>5. OpsOK' /\ OnlyGapsAreRefused'
    BY DEF IInv, Moves, Special, OpsOK, NextIntervention, OnlyGapsAreRefused
  <1> QED  BY <1>1, <1>2, <1>3, <1>4, <1>5 DEF IInv

(* The changes that the steps below make to the controller.                 *)
Remembers(d, c) == /\ d \in Controller /\ d.pending = c.pending
                   /\ d.consumed = c.consumed /\ d.incumbent = c.incumbent

LEMMA Changes ==
  ASSUME NEW c \in Controller, NEW st \in States
  PROVE  /\ Remembers(c, c)
         /\ Remembers([c EXCEPT !.state = st], c)
         /\ Remembers([c EXCEPT !.state = st, !.proposal = {}], c)
         /\ Remembers([c EXCEPT !.proposal = {}, !.state = st], c)
  BY DEF Remembers, Controller

LEMMA IdleChanges ==
  ASSUME NEW c \in Controller, NEW st \in States, NEW k \in Nat
  PROVE  Remembers([c EXCEPT !.proposal = {}, !.idle = k, !.state = st], c)
  BY DEF Remembers, Controller

LEMMA CallsChange ==
  ASSUME NEW c \in Controller, NEW st \in States, NEW n \in 0..PlanLimit
  PROVE  /\ Remembers([c EXCEPT !.calls = n], c)
         /\ Remembers([c EXCEPT !.state = st, !.calls = n], c)
  BY DEF Remembers, Controller

LEMMA FieldsOf ==
  ASSUME NEW c \in Controller
  PROVE  /\ c.state \in States /\ c.idle \in Nat /\ c.idle + 1 \in Nat
         /\ c.calls \in 0..PlanLimit /\ c.pending \subseteq Interventions
         /\ c.consumed \in 0..CandidateLimit
         /\ c.incumbent \in Interventions \union {0}
         /\ c.calls # PlanLimit => c.calls + 1 \in 0..PlanLimit
         /\ c.consumed # CandidateLimit => c.consumed + 1 \in 0..CandidateLimit
         /\ Resting(c) \in States
  BY ControllerAssumption DEF Controller, States, Resting

LEMMA EndDrainedKeeps ==
  ASSUME IInv, EndDrained
  PROVE  IInv'
  <1>1. Moves
    BY DEF IInv, TypeOK, Moves, Special, SameMemory, FlagsOK, PCs, Alive, EndDrained,
           Ends, flags, disk
  <1>2. RoomOK'
    BY DEF IInv, RoomOK, Starting, HasSlot, EndDrained, Ends, flags, disk
  <1> QED  BY <1>1, <1>2, MovesKeeps

LEMMA EndQuarantinedKeeps ==
  ASSUME IInv, EndQuarantined
  PROVE  IInv'
  <1>1. Moves
    BY DEF IInv, TypeOK, Moves, Special, SameMemory, FlagsOK, PCs, Alive,
           EndQuarantined, Ends, flags, disk
  <1>2. RoomOK'
    BY DEF IInv, RoomOK, Starting, HasSlot, EndQuarantined, Ends, flags, disk
  <1> QED  BY <1>1, <1>2, MovesKeeps

LEMMA TurnRefusedKeeps ==
  ASSUME IInv, TurnRefused
  PROVE  IInv'
  <1>1. Moves
    BY DEF IInv, TypeOK, Moves, Special, SameMemory, FlagsOK, PCs, Alive, TurnRefused,
           Ends, flags, disk, Raises
  <1>2. RoomOK'
    BY DEF IInv, RoomOK, Starting, HasSlot, TurnRefused, Ends, flags, disk, Raises
  <1> QED  BY <1>1, <1>2, MovesKeeps

LEMMA EndDecidedKeeps ==
  ASSUME IInv, EndDecided
  PROVE  IInv'
  <1>1. Moves
    BY DEF IInv, TypeOK, Moves, Special, SameMemory, FlagsOK, PCs, Alive, EndDecided,
           Ends, flags, disk, FinalPhase
  <1>2. RoomOK'
    BY DEF IInv, RoomOK, Starting, HasSlot, EndDecided, Ends, flags, disk, FinalPhase
  <1> QED  BY <1>1, <1>2, MovesKeeps

LEMMA EndStoppedKeeps ==
  ASSUME IInv, EndStopped
  PROVE  IInv'
  <1>1. ctl' \in Controller
    BY ControllerAssumption DEF IInv, TypeOK, Controller, States, EndStopped, flags
  <1>2. Moves
    BY <1>1 DEF IInv, TypeOK, Moves, Special, SameMemory, FlagsOK, PCs, Alive,
           EndStopped, flags, disk
  <1>3. RoomOK'
    BY DEF IInv, RoomOK, Starting, HasSlot, EndStopped, flags, disk
  <1> QED  BY <1>2, <1>3, MovesKeeps

LEMMA StartTurnKeeps ==
  ASSUME IInv, StartTurn
  PROVE  IInv'
  <1>1. Moves
    BY DEF IInv, TypeOK, Moves, Special, SameMemory, FlagsOK, PCs, Alive, StartTurn,
           TurnBegins, disk
  <1>2. RoomOK'
    BY DEF IInv, RoomOK, Starting, HasSlot, StartTurn, TurnBegins, disk
  <1> QED  BY <1>1, <1>2, MovesKeeps

LEMMA AfterTurnKeeps ==
  ASSUME IInv, AfterTurn
  PROVE  IInv'
  <1>1. Moves
    BY DEF IInv, TypeOK, Moves, Special, SameMemory, FlagsOK, PCs, Alive, AfterTurn,
           Goes, Ends, flags, disk
  <1>2. RoomOK'
    BY DEF IInv, RoomOK, Starting, HasSlot, AfterTurn, Goes, Ends, flags, disk
  <1> QED  BY <1>1, <1>2, MovesKeeps

LEMMA FillEndsKeeps ==
  ASSUME IInv, FillEnds
  PROVE  IInv'
  <1>1. Moves
    BY DEF IInv, TypeOK, Moves, Special, SameMemory, FlagsOK, PCs, Alive, FillEnds,
           Goes, flags, disk
  <1>2. RoomOK'
    BY DEF IInv, RoomOK, Starting, HasSlot, FillEnds, Goes, flags, disk
  <1> QED  BY <1>1, <1>2, MovesKeeps

LEMMA FillRetriesKeeps ==
  ASSUME IInv, FillRetries
  PROVE  IInv'
  <1>1. Moves
    BY DEF IInv, TypeOK, Moves, Special, SameMemory, FlagsOK, PCs, Alive, FillRetries,
           Filling, Goes, flags, disk
  <1>2. RoomOK'
    BY DEF IInv, RoomOK, Starting, HasSlot, FillRetries, Filling, Goes, flags, disk
  <1> QED  BY <1>1, <1>2, MovesKeeps

LEMMA DispatchKeeps ==
  ASSUME IInv, Dispatch
  PROVE  IInv'
  <1>1. Moves
    BY DEF IInv, TypeOK, Moves, Special, SameMemory, FlagsOK, PCs, Alive, Dispatch,
           Goes, flags, disk
  <1>2. RoomOK'
    BY DEF IInv, RoomOK, Starting, HasSlot, Dispatch, Goes, flags, disk
  <1> QED  BY <1>1, <1>2, MovesKeeps

LEMMA AbsorbNothingKeeps ==
  ASSUME IInv, AbsorbNothing
  PROVE  IInv'
  <1>1. Moves
    BY DEF IInv, TypeOK, Moves, Special, SameMemory, FlagsOK, PCs, Alive, AbsorbNothing,
           Goes, flags, disk
  <1>2. RoomOK'
    BY DEF IInv, RoomOK, Starting, HasSlot, AbsorbNothing, Goes, flags, disk
  <1> QED  BY <1>1, <1>2, MovesKeeps

LEMMA PlanExhaustedKeeps ==
  ASSUME IInv, PlanExhausted
  PROVE  IInv'
  <1>1. ctl \in Controller
    BY DEF IInv, TypeOK
  <1>2. Remembers(ctl', ctl)
    BY <1>1, Changes, CallsChange, FieldsOf DEF States, PlanExhausted, Goes, Persists,
           PersistsThen, flags, disk
  <1>3. Moves
    BY <1>2 DEF Remembers, IInv, TypeOK, Moves, Special, SameMemory, FlagsOK, PCs,
           Alive, PlanExhausted, Goes, Filling, Persists, PersistsThen, flags, disk
  <1>4. RoomOK'
    BY <1>2 DEF Remembers, IInv, RoomOK, Starting, HasSlot, PlanExhausted, Goes,
           Filling, Persists, PersistsThen, flags, disk
  <1> QED  BY <1>3, <1>4, MovesKeeps

LEMMA PlanBeginsKeeps ==
  ASSUME IInv, PlanBegins
  PROVE  IInv'
  <1>1. ctl \in Controller
    BY DEF IInv, TypeOK
  <1>2. Remembers(ctl', ctl)
    BY <1>1, Changes, CallsChange, FieldsOf DEF States, PlanBegins, Exhausted, Audits,
           PersistsThen
  <1>3. Moves
    BY <1>2 DEF Remembers, IInv, TypeOK, Moves, Special, SameMemory, FlagsOK, PCs,
           Alive, PlanBegins, Filling, Audits, PersistsThen, flags
  <1>4. RoomOK'
    BY <1>2 DEF Remembers, IInv, RoomOK, Starting, HasSlot, PlanBegins, Filling, Audits,
           PersistsThen, flags
  <1> QED  BY <1>3, <1>4, MovesKeeps

LEMMA TurnRaisesKeeps ==
  ASSUME IInv, TurnRaises
  PROVE  IInv'
  <1>1. Moves
    BY DEF IInv, TypeOK, Moves, Special, SameMemory, FlagsOK, PCs, Alive, TurnRaises,
           TurnBegins, Filling, Asking, Raises, Ends, flags, disk
  <1>2. RoomOK'
    BY DEF IInv, RoomOK, Starting, HasSlot, TurnRaises, TurnBegins, Filling, Asking,
           Raises, Ends, flags, disk
  <1> QED  BY <1>1, <1>2, MovesKeeps

LEMMA PlannerProposesKeeps ==
  ASSUME IInv, PlannerProposes
  PROVE  IInv'
  <1>1. ctl' \in Controller
    BY ControllerAssumption DEF IInv, TypeOK, Controller, States, PlannerProposes,
           Asking, Audits, PersistsThen, flags
  <1>2. Moves
    BY <1>1 DEF IInv, TypeOK, Moves, Special, SameMemory, FlagsOK, PCs, Alive,
           PlannerProposes, Asking, Audits, PersistsThen, flags
  <1>3. RoomOK'
    BY DEF IInv, RoomOK, Starting, HasSlot, PlannerProposes, Asking, Audits,
           PersistsThen, flags
  <1> QED  BY <1>2, <1>3, MovesKeeps

LEMMA PlannerDecidesKeeps ==
  ASSUME IInv, PlannerDecides
  PROVE  IInv'
  <1>1. ctl \in Controller
    BY DEF IInv, TypeOK
  <1>2. Remembers(ctl', ctl)
    BY <1>1, Changes, CallsChange, FieldsOf DEF States, PlannerDecides, Audits,
           PersistsThen
  <1>3. Moves
    BY <1>2 DEF Remembers, IInv, TypeOK, Moves, Special, SameMemory, FlagsOK, PCs,
           Alive, PlannerDecides, Asking, Audits, PersistsThen, flags
  <1>4. RoomOK'
    BY <1>2 DEF Remembers, IInv, RoomOK, Starting, HasSlot, PlannerDecides, Asking,
           Audits, PersistsThen, flags
  <1> QED  BY <1>3, <1>4, MovesKeeps

LEMMA NothingToProposeKeeps ==
  ASSUME IInv, NothingToPropose
  PROVE  IInv'
  <1>1. ctl' \in Controller
    BY ControllerAssumption DEF IInv, TypeOK, Controller, States, NothingToPropose,
           Audits, PersistsThen, flags
  <1>2. Moves
    BY <1>1 DEF IInv, TypeOK, Moves, Special, SameMemory, FlagsOK, PCs, Alive,
           NothingToPropose, Audits, PersistsThen, flags
  <1>3. RoomOK'
    BY DEF IInv, RoomOK, Starting, HasSlot, NothingToPropose, Audits, PersistsThen,
           flags
  <1> QED  BY <1>2, <1>3, MovesKeeps

LEMMA PlannerDefersKeeps ==
  ASSUME IInv, PlannerDefers
  PROVE  IInv'
  <1>1. ctl \in Controller
    BY DEF IInv, TypeOK
  <1>2. Remembers(ctl', ctl)
    <2>1. PICK turns \in {0, ctl.idle + 1} :
            LET goesOn == turns < MaxIdleTurns /\ ctl.calls < PlanLimit /\ ~ctl.late
            IN ctl' = [ctl EXCEPT !.proposal = {}, !.idle = turns,
                                  !.state = IF goesOn THEN Resting(ctl) ELSE "escalated"]
      BY DEF PlannerDefers, Audits, PersistsThen
    <2>2. turns \in Nat
      BY <1>1, FieldsOf
    <2>3. \E st \in States : ctl' = [ctl EXCEPT !.proposal = {}, !.idle = turns, !.state = st]
      BY <1>1, <2>1, FieldsOf DEF States
    <2>4. PICK st \in States : ctl' = [ctl EXCEPT !.proposal = {}, !.idle = turns, !.state = st]
      BY <2>3
    <2>5. Remembers([ctl EXCEPT !.proposal = {}, !.idle = turns, !.state = st], ctl)
      BY <1>1, <2>2, IdleChanges
    <2> QED  BY <2>4, <2>5
  <1>3. Moves
    BY <1>2 DEF Remembers, IInv, TypeOK, Moves, Special, SameMemory, FlagsOK, PCs,
           Alive, PlannerDefers, Asking, Audits, PersistsThen, flags
  <1>4. RoomOK'
    BY <1>2 DEF Remembers, IInv, RoomOK, Starting, HasSlot, PlannerDefers, Asking,
           Audits, PersistsThen, flags
  <1> QED  BY <1>3, <1>4, MovesKeeps

LEMMA AnswerUnreadableKeeps ==
  ASSUME IInv, AnswerUnreadable
  PROVE  IInv'
  <1>1. ctl \in Controller
    BY DEF IInv, TypeOK
  <1>2. Remembers(ctl', ctl)
    <2>1. ctl' \in {ctl, [ctl EXCEPT !.proposal = {}, !.idle = @ + 1, !.state = "escalated"]}
      BY DEF AnswerUnreadable, GivesUpPlanning, Audits, PersistsThen
    <2>2. ctl.idle + 1 \in Nat /\ "escalated" \in States
      BY <1>1, FieldsOf DEF States
    <2>3. Remembers([ctl EXCEPT !.proposal = {}, !.idle = ctl.idle + 1,
                                !.state = "escalated"], ctl)
      BY <1>1, <2>2, IdleChanges
    <2>4. Remembers(ctl, ctl)
      BY <1>1 DEF Remembers
    <2> QED  BY <2>1, <2>3, <2>4
  <1>3. Moves
    <2>1. /\ pc \in {"ask", "askRepair"} /\ pc' = "persist" /\ next' \in {"repair", "settle"}
          /\ auditAhead' = TRUE
          /\ UNCHANGED <<entry, reply, phase, flags, ops, launches, ledger, tail, snap, cases>>
      BY DEF AnswerUnreadable, Asking, GivesUpPlanning, Audits, PersistsThen
    <2> QED  BY <1>2, <2>1 DEF Remembers, IInv, TypeOK, Moves, Special, SameMemory, FlagsOK,
                               PCs, flags
  <1>4. RoomOK'
    BY <1>2 DEF Remembers, IInv, RoomOK, Starting, HasSlot, AnswerUnreadable, Asking,
           GivesUpPlanning, Audits, PersistsThen, flags
  <1> QED  BY <1>3, <1>4, MovesKeeps

LEMMA RepairBeginsKeeps ==
  ASSUME IInv, RepairBegins
  PROVE  IInv'
  <1>1. ctl \in Controller
    BY DEF IInv, TypeOK
  <1>2. Remembers(ctl', ctl)
    <2>1. \/ ctl' = [ctl EXCEPT !.proposal = {}, !.idle = @ + 1, !.state = "escalated"]
          \/ ctl.calls # PlanLimit /\ ctl' = [ctl EXCEPT !.calls = @ + 1]
      BY DEF RepairBegins, GivesUpPlanning, Audits, PersistsThen
    <2>2. ctl.idle + 1 \in Nat /\ "escalated" \in States
      BY <1>1, FieldsOf DEF States
    <2>3. ctl.calls # PlanLimit => ctl.calls + 1 \in 0..PlanLimit
      BY <1>1, FieldsOf
    <2>4. Remembers([ctl EXCEPT !.proposal = {}, !.idle = ctl.idle + 1,
                                !.state = "escalated"], ctl)
      BY <1>1, <2>2, IdleChanges
    <2>5. ctl.calls # PlanLimit => Remembers([ctl EXCEPT !.calls = ctl.calls + 1], ctl)
      BY <1>1, <2>2, <2>3, CallsChange
    <2> QED  BY <2>1, <2>4, <2>5
  <1>3. Moves
    BY <1>2 DEF Remembers, IInv, TypeOK, Moves, Special, SameMemory, FlagsOK, PCs,
           Alive, RepairBegins, GivesUpPlanning, Audits, PersistsThen, flags
  <1>4. RoomOK'
    BY <1>2 DEF Remembers, IInv, RoomOK, Starting, HasSlot, RepairBegins,
           GivesUpPlanning, Audits, PersistsThen, flags
  <1> QED  BY <1>3, <1>4, MovesKeeps

LEMMA StopBeforeExecutionKeeps ==
  ASSUME IInv, StopBeforeExecution
  PROVE  IInv'
  <1>1. ctl' \in Controller
    BY ControllerAssumption DEF IInv, TypeOK, Controller, States, StopBeforeExecution,
           Persists, PersistsThen, flags, disk
  <1>2. Moves
    BY <1>1 DEF IInv, TypeOK, Moves, Special, SameMemory, FlagsOK, PCs, Alive,
           StopBeforeExecution, Persists, PersistsThen, flags, disk
  <1>3. RoomOK'
    BY DEF IInv, RoomOK, Starting, HasSlot, StopBeforeExecution, Persists, PersistsThen,
           flags, disk
  <1> QED  BY <1>2, <1>3, MovesKeeps

LEMMA ExecuteExhaustedKeeps ==
  ASSUME IInv, ExecuteExhausted
  PROVE  IInv'
  <1>1. ctl \in Controller
    BY DEF IInv, TypeOK
  <1>2. Remembers(ctl', ctl)
    BY <1>1, Changes, CallsChange, FieldsOf DEF States, ExecuteExhausted, Persists,
           PersistsThen
  <1>3. Moves
    BY <1>2 DEF Remembers, IInv, TypeOK, Moves, Special, SameMemory, FlagsOK, PCs,
           Alive, ExecuteExhausted, FillAgain, Persists, PersistsThen, flags, disk
  <1>4. RoomOK'
    BY <1>2 DEF Remembers, IInv, RoomOK, Starting, HasSlot, ExecuteExhausted, FillAgain,
           Persists, PersistsThen, flags, disk
  <1> QED  BY <1>3, <1>4, MovesKeeps

LEMMA ExecuteStaleKeeps ==
  ASSUME IInv, ExecuteStale
  PROVE  IInv'
  <1>1. ctl' \in Controller
    BY ControllerAssumption DEF IInv, TypeOK, Controller, States, ExecuteStale, Resting,
           Persists, PersistsThen, flags, disk
  <1>2. Moves
    BY <1>1 DEF IInv, TypeOK, Moves, Special, SameMemory, FlagsOK, PCs, Alive,
           ExecuteStale, FillAgain, Resting, Persists, PersistsThen, flags, disk
  <1>3. RoomOK'
    BY DEF IInv, RoomOK, Starting, HasSlot, ExecuteStale, FillAgain, Resting, Persists,
           PersistsThen, flags, disk
  <1> QED  BY <1>2, <1>3, MovesKeeps

LEMMA ExecuteBusyKeeps ==
  ASSUME IInv, ExecuteBusy
  PROVE  IInv'
  <1>1. ctl' \in Controller
    BY ControllerAssumption DEF IInv, TypeOK, Controller, States, ExecuteBusy,
           Executing, Persists, PersistsThen, flags, disk
  <1>2. Moves
    BY <1>1 DEF IInv, TypeOK, Moves, Special, SameMemory, FlagsOK, PCs, Alive,
           ExecuteBusy, Executing, Persists, PersistsThen, flags, disk
  <1>3. RoomOK'
    BY DEF IInv, RoomOK, Starting, HasSlot, ExecuteBusy, Executing, Persists,
           PersistsThen, flags, disk
  <1> QED  BY <1>2, <1>3, MovesKeeps

LEMMA SettleKeeps ==
  ASSUME IInv, Settle
  PROVE  IInv'
  <1>1. /\ pc = "settle" /\ pc' = "absorb" /\ held' = FALSE
        /\ UNCHANGED <<next, ctl, entry, reply, phase, stop, paused, drain, wasPaused,
                       ledger, tail, snap, auditAhead, cases, ops, launches>>
    BY DEF Settle, disk
  <1>2. Moves
    <2>1. FlagsOK'
      BY <1>1 DEF IInv, TypeOK, FlagsOK
    <2>2. ctl' \in Controller /\ SameMemory /\ next' \in PCs /\ pc' \in PCs \ Special
      BY <1>1 DEF IInv, TypeOK, SameMemory, PCs, Special
    <2>3. /\ ops' \in [Interventions -> {"none", "running", "cancelling", "succeeded", "failed"}]
          /\ auditAhead' \in BOOLEAN /\ cases' \in {"none", "pooled", "torn"}
          /\ phase' \in {"none", "completed", "stopped", "interrupted", "quarantined", "error"}
      BY <1>1 DEF IInv, TypeOK
    <2> QED  BY <1>1, <2>1, <2>2, <2>3 DEF Moves, Special
  <1>3. RoomOK'
    BY <1>1 DEF IInv, RoomOK, Starting, HasSlot
  <1> QED  BY <1>2, <1>3, MovesKeeps

LEMMA EvidenceMissingKeeps ==
  ASSUME IInv, NEW i \in Interventions, EvidenceMissing(i)
  PROVE  IInv'
  <1>1. Moves
    BY DEF IInv, TypeOK, Moves, Special, SameMemory, FlagsOK, PCs, Alive,
           EvidenceMissing, Waiting, Raises, Ends, flags, disk
  <1>2. RoomOK'
    BY DEF IInv, RoomOK, Starting, HasSlot, EvidenceMissing, Waiting, Raises, Ends,
           flags, disk
  <1> QED  BY <1>1, <1>2, MovesKeeps

LEMMA RequestCancelsKeeps ==
  ASSUME IInv, RequestCancels
  PROVE  IInv'
  <1>1. Moves
    BY DEF IInv, TypeOK, Moves, Special, SameMemory, FlagsOK, PCs, Alive,
           RequestCancels, flags, disk
  <1>2. RoomOK'
    BY DEF IInv, RoomOK, Starting, HasSlot, RequestCancels, flags, disk
  <1> QED  BY <1>1, <1>2, MovesKeeps

-----------------------------------------------------------------------------
(* Steps of the user, the clock and ECC: the thread stays where it is       *)

Stays ==
  /\ UNCHANGED <<pc, next, entry, reply, phase, ledger, tail, snap, auditAhead, cases,
                 launches>>
  /\ Remembers(ctl', ctl) /\ FlagsOK'
  /\ ops' \in [Interventions -> {"none", "running", "cancelling", "succeeded", "failed"}]
  /\ \A i \in Interventions : ops'[i] # "none" => ops[i] # "none"

LEMMA StaysKeeps ==
  ASSUME IInv, Stays
  PROVE  IInv'
  <1>1. TypeOK'
    BY DEF IInv, TypeOK, Stays, FlagsOK, Remembers
  <1>2. WellKept(ledger)' /\ SnapOK' /\ EntryOK' /\ TailOK' /\ UnconfirmedOK'
    BY DEF IInv, Stays, SnapOK, EntryOK, TailOK, UnconfirmedOK
  <1>3. MemoryMatchesLedger'
    <2>1. Written' = Written /\ (Alive' <=> Alive)
      BY DEF Stays, Written, Alive
    <2> QED  BY <2>1 DEF IInv, Stays, Remembers, MemoryMatchesLedger
  <1>4. RoomOK'
    BY DEF IInv, Stays, Remembers, RoomOK, HasSlot
  <1>5. OpsOK' /\ OnlyGapsAreRefused'
    BY DEF IInv, Stays, OpsOK, NextIntervention, OnlyGapsAreRefused
  <1> QED  BY <1>1, <1>2, <1>3, <1>4, <1>5 DEF IInv

LEMMA ControlKeeps ==
  ASSUME IInv, Control
  PROVE  IInv'
  <1>1. ctl \in Controller /\ FlagsOK
    BY DEF IInv, TypeOK, FlagsOK
  <1>2. UNCHANGED <<thread, held, disk, ops, launches>> /\ FlagsOK'
    BY <1>1 DEF Control, Pause, Resume, RequestStop, PrepareShutdown, CancelShutdown, Sets,
                FlagsOK
  <1>3. Remembers(ctl', ctl)
    BY <1>1, <1>2 DEF Remembers, thread
  <1>4. Stays
    BY <1>2, <1>3 DEF Stays, thread, disk, IInv, TypeOK
  <1> QED  BY <1>4, StaysKeeps

LEMMA TimeRunsOutKeeps ==
  ASSUME IInv, TimeRunsOut
  PROVE  IInv'
  <1>1. Remembers(ctl', ctl)
    BY DEF IInv, TypeOK, TimeRunsOut, Remembers, Controller
  <1>2. Stays
    BY <1>1 DEF Stays, TimeRunsOut, flags, disk, IInv, TypeOK, FlagsOK
  <1> QED  BY <1>2, StaysKeeps

LEMMA OpFinishesKeeps ==
  ASSUME IInv, NEW i \in Interventions, OpFinishes(i)
  PROVE  IInv'
  <1>1. /\ ops' \in [Interventions -> {"none", "running", "cancelling", "succeeded", "failed"}]
        /\ \A j \in Interventions : ops'[j] # "none" => ops[j] # "none"
    BY DEF OpFinishes, IInv, TypeOK
  <1>2. Remembers(ctl', ctl) /\ FlagsOK'
    BY DEF OpFinishes, thread, flags, Remembers, FlagsOK, IInv, TypeOK
  <1>3. Stays
    BY <1>1, <1>2 DEF Stays, OpFinishes, thread, disk
  <1> QED  BY <1>3, StaysKeeps

LEMMA StutterKeeps ==
  ASSUME IInv, UNCHANGED vars
  PROVE  IInv'
  <1>1. Remembers(ctl', ctl) /\ FlagsOK'
    BY DEF vars, thread, flags, Remembers, FlagsOK, IInv, TypeOK
  <1>2. Stays
    BY <1>1 DEF Stays, vars, thread, disk, IInv, TypeOK
  <1> QED  BY <1>2, StaysKeeps

-----------------------------------------------------------------------------
(* The snapshot *)

LEMMA PersistKeeps ==
  ASSUME IInv, Persist
  PROVE  IInv'
  <1>1. ledger \in Logs /\ Len(ledger) \in Nat /\ SubSeq(ledger, 1, Len(ledger)) = ledger
    BY SubSeqFull, LenProperties DEF IInv, WellKept, Logs
  <1>2. Alive /\ Written = ledger /\ entry = <<>> /\ tail = <<>>
    BY DEF Persist, IInv, Alive, Written, EntryOK, TailOK
  <1>3. Says(ctl, ledger)
    BY <1>2 DEF IInv, MemoryMatchesLedger, Says, Count
  <1>4. pc' \in PCs \ Special /\ next' = "top"
    BY DEF Persist, IInv, TypeOK, RoomOK, Special
  <1>5. TypeOK'
    <2>1. snap' \in [ctl : Controller, count : Nat]
      BY <1>1 DEF Persist, IInv, TypeOK
    <2>2. pc' \in PCs /\ next' \in PCs
      BY <1>4 DEF PCs
    <2>3. FlagsOK' /\ auditAhead' \in BOOLEAN /\ cases' \in {"none", "pooled", "torn"}
      BY DEF Persist, IInv, TypeOK, flags, FlagsOK
    <2>4. entry' = <<>> /\ tail' = <<>>
      BY <1>2 DEF Persist
    <2>5. /\ ctl' \in Controller /\ reply' \in {"none", "accepted", "failed", "lost"}
          /\ phase' \in {"none", "completed", "stopped", "interrupted", "quarantined", "error"}
          /\ ledger' \in Seq(Log!Entry) /\ launches' \in 0..MaxLaunches
          /\ ops' \in [Interventions -> {"none", "running", "cancelling", "succeeded", "failed"}]
      BY DEF Persist, IInv, TypeOK
    <2> QED  BY <2>1, <2>2, <2>3, <2>4, <2>5 DEF TypeOK, FlagsOK
  <1>6. WellKept(ledger)' /\ SnapOK'
    <2>1. /\ ledger' = ledger /\ snap'.count = Len(ledger) /\ snap'.ctl = ctl
      BY DEF Persist
    <2>2. SubSeq(ledger', 1, snap'.count) = ledger
      BY <1>1, <2>1
    <2>3. Says(snap'.ctl, SubSeq(ledger', 1, snap'.count))
      BY <1>3, <2>1, <2>2
    <2>4. WellKept(ledger')
      BY <2>1 DEF IInv
    <2> QED  BY <1>1, <2>1, <2>3, <2>4 DEF SnapOK
  <1>7. EntryOK' /\ TailOK' /\ UnconfirmedOK'
    BY <1>2, <1>4 DEF Persist, Special, EntryOK, TailOK, UnconfirmedOK
  <1>8. MemoryMatchesLedger'
    BY <1>2, <1>4 DEF Persist, IInv, Special, MemoryMatchesLedger, Written
  <1>9. RoomOK'
    BY <1>4 DEF Persist, IInv, RoomOK, HasSlot, Starting, Special
  <1>10. OpsOK' /\ OnlyGapsAreRefused'
    BY <1>4 DEF Persist, IInv, Special, OpsOK, NextIntervention, OnlyGapsAreRefused
  <1> QED  BY <1>5, <1>6, <1>7, <1>8, <1>9, <1>10 DEF IInv

LEMMA RecordKeeps ==
  ASSUME IInv, Record
  PROVE  IInv'
  <1>1. Moves
    BY DEF Record, RecordCase, RecordingRaises, Ends, Moves, SameMemory, Special, PCs, IInv,
       TypeOK, flags, disk, FlagsOK
  <1>2. RoomOK'
    BY DEF Record, RecordCase, RecordingRaises, Ends, IInv, RoomOK, Starting, HasSlot
  <1> QED  BY <1>1, <1>2, MovesKeeps

-----------------------------------------------------------------------------
(* Entries: decided, then appended *)

(* An entry e is decided on, and the controller already counts it.          *)
Decides(e) ==
  /\ Alive /\ pc # "append" /\ pc' = "append" /\ entry' = <<e>>
  /\ next' \in PCs \ (Special \union Starting)
  /\ reply' \in {"none", "accepted", "failed", "lost"}
  /\ ctl' \in Controller /\ Says(ctl', Append(ledger, e))
  /\ ops' \in [Interventions -> {"none", "running", "cancelling", "succeeded", "failed"}]
  /\ UNCHANGED <<phase, flags, disk, launches>>

LEMMA DecidesKeeps ==
  ASSUME IInv, NEW e \in Log!Entry, Decides(e), Fits(ledger, e), OpsOK'
  PROVE  IInv'
  <1>1. TypeOK'
    BY DEF IInv, TypeOK, Decides, PCs, flags, disk
  <1>2. WellKept(ledger)' /\ SnapOK'
    BY DEF IInv, Decides, SnapOK, disk
  <1>3. EntryOK' /\ TailOK' /\ UnconfirmedOK'
    BY DEF IInv, Decides, EntryOK, TailOK, UnconfirmedOK, disk, Alive
  <1>4. MemoryMatchesLedger'
    <2>1. Written' = Append(ledger, e)
      BY Appended DEF Decides, Written, disk, IInv, WellKept
    <2> QED  BY <2>1 DEF Decides, MemoryMatchesLedger, Says, Count
  <1>5. RoomOK' /\ OnlyGapsAreRefused'
    BY DEF Decides, RoomOK, Starting, Special, OnlyGapsAreRefused
  <1> QED  BY <1>1, <1>2, <1>3, <1>4, <1>5 DEF IInv

Outcomes == {"improved", "other", "indeterminate"}

LEMMA MergedIs ==
  ASSUME NEW c \in Controller, NEW i \in Interventions, NEW o \in Outcomes
  PROVE  /\ Merged(c, i, o) \in Controller
         /\ Merged(c, i, o).pending = c.pending \ {i}
         /\ Merged(c, i, o).consumed = c.consumed
         /\ Merged(c, i, o).incumbent = IF o = "improved" THEN i ELSE c.incumbent
  <1> DEFINE d == [c EXCEPT !.pending = @ \ {i},
     !.incumbent = IF o = "improved" THEN i ELSE @]
  <1>1. /\ d \in Controller /\ d.pending = c.pending \ {i} /\ d.consumed = c.consumed
        /\ d.incumbent = IF o = "improved" THEN i ELSE c.incumbent
    BY DEF Controller
  <1>2. \E st \in States : Merged(c, i, o) = [d EXCEPT !.state = st]
    BY DEF Merged, States
  <1> HIDE DEF d
  <1>3. PICK st \in States : Merged(c, i, o) = [d EXCEPT !.state = st]
    BY <1>2
  <1>4. Remembers([d EXCEPT !.state = st], d)
    BY <1>1, Changes
  <1> QED  BY <1>1, <1>3, <1>4 DEF Remembers

LEMMA MergeKeeps ==
  ASSUME IInv, Alive, pc # "append", NEW i \in ctl.pending, NEW o \in Outcomes,
         NEW p \in PCs \ (Special \union Starting), Merge(i, o, p)
  PROVE  IInv'
  <1> DEFINE e == Log!TerminalEntry(i, o)
  <1>1. /\ WellKept(ledger) /\ ledger \in Logs /\ Says(ctl, ledger) /\ ctl \in Controller
        /\ i \in Interventions
    BY FieldsOf DEF IInv, TypeOK, WellKept, MemoryMatchesLedger, Written, Says, Count
  <1>2. e \in Log!Entry /\ e.kind = "terminal" /\ e.id = i /\ e.outcome = o
    BY <1>1, TerminalIsEntry DEF Outcomes
  <1>3. i \in Log!Unanswered(ledger)
    BY <1>1 DEF Says
  <1> HIDE DEF e
  <1>4. Log!Accepts(ledger, e)
    BY <1>2, <1>3 DEF Log!Accepts
  <1>5. Fits(ledger, e)
    <2>1. Log!Unanswered(Append(ledger, e)) = Log!Unanswered(ledger) \ {i}
      BY <1>1, <1>2, <1>4, AppendedMemory
    <2>2. IsFiniteSet(Log!Unanswered(ledger)) /\ Cardinality(Log!Unanswered(ledger)) \in Nat
      BY <1>1, CountType
    <2>3. Cardinality(Log!Unanswered(ledger) \ {i}) = Cardinality(Log!Unanswered(ledger)) - 1
      BY <1>3, <2>2, FS_RemoveElement
    <2>4. Cardinality(Log!Unanswered(ledger)) <= Slots /\ Slots \in Nat
      BY <1>1, ControllerAssumption DEF WellKept
    <2> QED  BY <1>2, <1>4, <2>1, <2>2, <2>3, <2>4 DEF Fits
  <1>6. Says(ctl', Append(ledger, e))
    <2>1. ctl' = Merged(ctl, i, o)
      BY DEF Merge
    <2>2. /\ ctl'.pending = ctl.pending \ {i} /\ ctl'.consumed = ctl.consumed
          /\ ctl'.incumbent = IF o = "improved" THEN i ELSE ctl.incumbent
      BY <1>1, <2>1, MergedIs
    <2>3. /\ ctl'.pending = IF e.kind = "start" THEN ctl.pending \union {e.id}
                                               ELSE ctl.pending \ {e.id}
          /\ ctl'.consumed = IF e.kind = "start" THEN ctl.consumed + 1 ELSE ctl.consumed
          /\ ctl'.incumbent = IF e.outcome = "improved" THEN e.id ELSE ctl.incumbent
      BY <1>2, <2>2
    <2> QED  BY <1>1, <1>2, <1>4, <2>3, SaysAppended
  <1>7. Decides(e)
    <2>1. ctl' \in Controller
      BY <1>1, MergedIs DEF Merge
    <2> QED  BY <1>6, <2>1 DEF Merge, Decides, e, IInv, TypeOK
  <1>8. OpsOK'
    BY DEF Merge, IInv, OpsOK, NextIntervention, disk
  <1> QED  BY <1>2, <1>5, <1>7, <1>8, DecidesKeeps

LEMMA UnconfirmedKeeps ==
  ASSUME IInv, Unconfirmed
  PROVE  IInv'
  <1> DEFINE i == ledger[Len(ledger)].id
             o == IF reply = "lost" THEN "indeterminate" ELSE "other"
             p == FillAgain(Merged(ctl, i, o))
  <1>1. Alive /\ pc = "unconfirmed" /\ Merge(i, o, p)
    BY DEF Unconfirmed, Alive
  <1>2. i \in ctl.pending
    BY <1>1 DEF IInv, UnconfirmedOK, MemoryMatchesLedger, Written
  <1>3. o \in Outcomes /\ p \in PCs \ (Special \union Starting)
    BY DEF Outcomes, FillAgain, PCs, Special, Starting
  <1> HIDE DEF i, o, p
  <1> QED  BY <1>1, <1>2, <1>3, MergeKeeps

LEMMA CollectKeeps ==
  ASSUME IInv, NEW i \in Interventions, Collect(i)
  PROVE  IInv'
  <1>1. Alive /\ pc # "append" /\ i \in ctl.pending
    BY DEF Collect, Waiting, Alive
  <1>2. \E o \in Outcomes : Merge(i, o, "after")
    BY DEF Collect, Outcomes
  <1>3. "after" \in PCs \ (Special \union Starting)
    BY DEF PCs, Special, Starting
  <1> QED  BY <1>1, <1>2, <1>3, MergeKeeps

LEMMA OldestIsPending ==
  ASSUME IInv, ~Idle
  PROVE  Oldest(ctl.pending) \in ctl.pending
  <1>1. ctl.pending \subseteq Nat /\ ctl.pending # {}
    BY ControllerAssumption, FieldsOf DEF IInv, TypeOK, Interventions, Idle
  <1>2. \E i \in ctl.pending : \A j \in ctl.pending : i <= j
    BY <1>1, SmallestExists
  <1> QED  BY <1>2 DEF Oldest

LEMMA GivesUpWaiting ==
  ASSUME IInv, WaitFails \/ GiveUp
  PROVE  IInv'
  <1>1. Alive /\ pc # "append" /\ ~Idle /\ Merge(Oldest(ctl.pending), "indeterminate", "after")
    BY DEF WaitFails, GiveUp, Waiting, Alive
  <1>2. Oldest(ctl.pending) \in ctl.pending
    BY <1>1, OldestIsPending
  <1>3. "after" \in PCs \ (Special \union Starting) /\ "indeterminate" \in Outcomes
    BY DEF PCs, Special, Starting, Outcomes
  <1> QED  BY <1>1, <1>2, <1>3, MergeKeeps

LEMMA OneMore ==
  ASSUME NEW S, IsFiniteSet(S), NEW x
  PROVE  /\ Cardinality(S \union {x}) \in Nat
         /\ Cardinality(S \union {x}) <= Cardinality(S) + 1
  <1>1. Cardinality(S) \in Nat
    BY FS_CardinalityType
  <1>2. Cardinality(S \union {x}) = IF x \in S THEN Cardinality(S) ELSE Cardinality(S) + 1
    BY FS_AddElement
  <1> QED  BY <1>1, <1>2

(* A candidate is started under the next key.                               *)
LEMMA RegistersKeeps ==
  ASSUME IInv, Executing, NEW r \in {"accepted", "failed", "lost"},
         Registers(NextIntervention, r),
         ops' \in [Interventions -> {"none", "running", "cancelling", "succeeded", "failed"}],
         \A i \in Interventions : ops'[i] # "none" => ops[i] # "none" \/ i = NextIntervention
  PROVE  IInv'
  <1> DEFINE i == NextIntervention
             e == Log!StartEntry(i)
  <1>1. /\ WellKept(ledger) /\ ledger \in Logs /\ Says(ctl, ledger) /\ ctl \in Controller
        /\ pc = "execute" /\ HasSlot(ctl) /\ ctl.consumed # CandidateLimit
    BY DEF IInv, TypeOK, WellKept, MemoryMatchesLedger, Written, Alive, Says, Count,
       Executing,
           Exhausted, RoomOK, Starting
  <1>2. i = Count(ledger) + 1 /\ Count(ledger) \in Nat /\ i \in Interventions
    <2>1. i = Count(ledger) + 1
      BY DEF NextIntervention, Count
    <2>2. Count(ledger) = ctl.consumed /\ ctl.consumed \in 0..CandidateLimit
      BY <1>1, FieldsOf DEF Says
    <2> HIDE DEF i
    <2> QED  BY <1>1, <2>1, <2>2, ControllerAssumption DEF Interventions
  <1>3. e \in Log!Entry /\ e.kind = "start" /\ e.id = i /\ e.outcome = "none"
    BY <1>2, StartIsEntry
  <1> HIDE DEF e
  <1>4. i \notin Log!Started(ledger) /\ Log!Accepts(ledger, e)
    <2>1. Log!Started(ledger) = 1..Count(ledger)
      BY <1>1 DEF WellKept
    <2>2. i \notin Log!Started(ledger)
      BY <1>2, <2>1
    <2> QED  BY <1>3, <2>2 DEF Log!Accepts
  <1>5. Fits(ledger, e)
    <2>1. Log!Unanswered(Append(ledger, e)) = Log!Unanswered(ledger) \union {i}
      BY <1>1, <1>3, <1>4, AppendedMemory
    <2>2. IsFiniteSet(Log!Unanswered(ledger)) /\ Cardinality(Log!Unanswered(ledger)) \in Nat
      BY <1>1, CountType
    <2>3. Cardinality(Log!Unanswered(ledger) \union {i}) <= Cardinality(Log!Unanswered(ledger)) + 1
      BY <2>2, OneMore
    <2>4. Cardinality(Log!Unanswered(ledger)) < Slots /\ Slots \in Nat
      BY <1>1, ControllerAssumption DEF HasSlot, Says
    <2>5. Cardinality(Log!Unanswered(ledger) \union {i}) \in Nat
      BY <2>2, OneMore
    <2>6. Cardinality(Log!Unanswered(Append(ledger, e))) <= Slots
      BY <2>1, <2>2, <2>3, <2>4, <2>5
    <2> QED  BY <1>2, <1>3, <1>4, <2>6 DEF Fits
  <1>6. /\ ctl'.pending = ctl.pending \union {i} /\ ctl'.consumed = ctl.consumed + 1
        /\ ctl'.incumbent = ctl.incumbent /\ ctl' \in Controller
    BY <1>1, <1>2, FieldsOf DEF Registers, Controller, States
  <1>7. Says(ctl', Append(ledger, e))
    BY <1>1, <1>3, <1>4, <1>6, SaysAppended
  <1>8. next' \in PCs \ (Special \union Starting)
    BY DEF Registers, FillAgain, PCs, Special, Starting
  <1>9. Decides(e)
    BY <1>1, <1>6, <1>7, <1>8 DEF Registers, Decides, e, Alive
  <1>10. OpsOK'
    BY <1>2 DEF Registers, disk, IInv, OpsOK, NextIntervention, Count
  <1> QED  BY <1>3, <1>5, <1>9, <1>10, DecidesKeeps

LEMMA StartsKeep ==
  ASSUME IInv, ExecuteAccepted \/ ExecuteFailedAtOnce \/ ExecuteLost
  PROVE  IInv'
  <1>1. ops \in [Interventions -> {"none", "running", "cancelling", "succeeded", "failed"}]
    BY DEF IInv, TypeOK
  <1>2. CASE ExecuteAccepted
    <2>1. \E r \in {"accepted", "failed", "lost"} : Registers(NextIntervention, r)
      BY <1>2 DEF ExecuteAccepted
    <2>2. ops' = [ops EXCEPT ![NextIntervention] = IF @ = "none" THEN "running" ELSE @]
      BY <1>2 DEF ExecuteAccepted
    <2> QED  BY <1>1, <1>2, <2>1, <2>2, RegistersKeeps DEF ExecuteAccepted
  <1>3. CASE ExecuteFailedAtOnce
    BY <1>1, <1>3, RegistersKeeps DEF ExecuteFailedAtOnce
  <1>4. CASE ExecuteLost
    <2>1. Executing /\ Registers(NextIntervention, "lost")
      BY <1>4 DEF ExecuteLost
    <2>2. \E o \in {"running", ops[NextIntervention]} : ops' = [ops EXCEPT ![NextIntervention] = o]
      BY <1>4 DEF ExecuteLost
    <2>3. /\ ops' \in [Interventions -> {"none", "running", "cancelling", "succeeded", "failed"}]
          /\ \A i \in Interventions : ops'[i] # "none" => ops[i] # "none" \/ i = NextIntervention
      BY <1>1, <2>2
    <2> QED  BY <2>1, <2>3, RegistersKeeps
  <1> QED  BY <1>2, <1>3, <1>4

LEMMA AppendEntryKeeps ==
  ASSUME IInv, AppendEntry
  PROVE  IInv'
  <1>1. pc = "append" /\ entry' = <<>> /\ UNCHANGED <<next, ctl, phase, flags, tail, snap, auditAhead, cases, ops, launches>>
    BY DEF AppendEntry
  <1>2. PICK e \in Log!Entry : entry = <<e>> /\ Fits(ledger, e)
    BY <1>1 DEF IInv, EntryOK
  <1>3. /\ ledger' = Append(ledger, e)
        /\ pc' \in {"unconfirmed", "persist", "record"}
        /\ pc' = "unconfirmed" <=> e.kind = "start" /\ reply # "accepted"
        /\ reply' \in {reply, "none"}
    <2>1. {entry[k] : k \in DOMAIN entry} = {e}
      BY <1>2
    <2>2. e.kind \in {"start", "terminal"}
      BY EntryFields
    <2> QED  BY <2>1, <2>2 DEF AppendEntry
  <1>4. /\ WellKept(ledger) /\ ledger \in Logs /\ WellKept(ledger') /\ ledger' \in Logs
        /\ Len(ledger) \in Nat /\ Len(ledger') = Len(ledger) + 1 /\ ledger'[Len(ledger')] = e
        /\ ledger' = ledger \o <<e>> /\ Log!Accepts(ledger, e)
    BY <1>2, <1>3, AppendedKept, Appended DEF IInv, WellKept, Fits
  <1>5. tail = <<>> /\ pc' \in {"unconfirmed", "persist", "record"}
    BY <1>1, <1>3 DEF IInv, TailOK
  <1>6. TypeOK'
    <2>1. FlagsOK' /\ auditAhead' \in BOOLEAN /\ cases' \in {"none", "pooled", "torn"}
      BY <1>1 DEF IInv, TypeOK, flags, FlagsOK
    <2>2. entry' = <<>> /\ tail' = <<>> /\ pc' \in PCs
      BY <1>1, <1>5 DEF PCs
    <2>3. /\ ctl' \in Controller /\ reply' \in {"none", "accepted", "failed", "lost"}
          /\ phase' \in {"none", "completed", "stopped", "interrupted", "quarantined", "error"}
          /\ launches' \in 0..MaxLaunches /\ next' \in PCs
          /\ snap' \in [ctl : Controller, count : Nat]
          /\ ops' \in [Interventions -> {"none", "running", "cancelling", "succeeded", "failed"}]
      BY <1>1, <1>3 DEF IInv, TypeOK
    <2>4. ledger' \in Seq(Log!Entry)
      BY <1>4 DEF Logs
    <2> QED  BY <2>1, <2>2, <2>3, <2>4 DEF TypeOK, FlagsOK
  <1>7. SnapOK'
    <2>1. snap.count \in 0..Len(ledger) /\ Says(snap.ctl, SubSeq(ledger, 1, snap.count))
      BY DEF IInv, SnapOK
    <2>2. SubSeq(ledger', 1, snap.count) = SubSeq(ledger, 1, snap.count)
      BY <1>3, <1>4, <2>1, PrefixKept
    <2>3. snap.count \in 0..Len(ledger')
      BY <1>4, <2>1
    <2> QED  BY <1>1, <2>1, <2>2, <2>3 DEF SnapOK
  <1>8. EntryOK' /\ TailOK'
    BY <1>1, <1>5 DEF EntryOK, TailOK
  <1>9. UnconfirmedOK'
    <2>1. ASSUME e.kind = "start"  PROVE e.id \in Log!Unanswered(ledger')
      <3>1. Log!Unanswered(Append(ledger, e)) = Log!Unanswered(ledger) \union {e.id}
        BY <1>4, <2>1, AppendedMemory
      <3> QED  BY <1>3, <3>1
    <2> QED  BY <1>3, <1>4, <2>1 DEF UnconfirmedOK
  <1>10. MemoryMatchesLedger'
    <2>1. Alive /\ Written = ledger' /\ Written' = ledger'
      BY <1>1, <1>2, <1>4, <1>5 DEF Alive, Written
    <2> QED  BY <1>1, <2>1 DEF IInv, MemoryMatchesLedger
  <1>11. RoomOK'
    BY <1>1, <1>5 DEF IInv, RoomOK, Starting
  <1>12. OpsOK'
    <2>1. Count(ledger') = Count(ledger) \/ Count(ledger') = Count(ledger) + 1
      BY <1>3, <1>4, AppendedCount
    <2>2. Count(ledger) \in Nat
      BY <1>4, CountType
    <2>3. \A i \in Interventions : ops[i] # "none" => i <= Count(ledger) + 1 /\ i \in Nat
      BY ControllerAssumption DEF IInv, OpsOK, NextIntervention, Count, Interventions
    <2>4. \A i \in Interventions : ops'[i] # "none" => i <= Count(ledger') + 1
      BY <1>1, <2>1, <2>2, <2>3
    <2> QED  BY <2>4 DEF OpsOK, NextIntervention, Count
  <1>13. OnlyGapsAreRefused'
    BY <1>5 DEF OnlyGapsAreRefused
  <1> QED  BY <1>4, <1>6, <1>7, <1>8, <1>9, <1>10, <1>11, <1>12, <1>13 DEF IInv

-----------------------------------------------------------------------------
(* Crashes and recovery *)

LEMMA CrashKeeps ==
  ASSUME IInv, Crash
  PROVE  IInv'
  <1>1. /\ pc' = "down" /\ next' = "top" /\ entry' = <<>> /\ reply' = "none" /\ Alive
        /\ ctl' = NewController /\ UNCHANGED <<phase, ledger, snap, auditAhead, ops, launches>>
    BY DEF Crash
  <1>2. tail' = <<>> \/ \E e \in Log!Entry, w \in BOOLEAN :
                           tail' = <<[entry |-> e, whole |-> w]>> /\ Fits(ledger, e)
    <2>1. CASE pc = "append"
      <3>1. PICK e \in Log!Entry : entry = <<e>> /\ Fits(ledger, e)
        BY <2>1 DEF IInv, EntryOK
      <3>2. tail' \in {<<>>} \union {<<[entry |-> entry[k], whole |-> w]>> :
                                        k \in DOMAIN entry, w \in BOOLEAN}
        BY <2>1 DEF Crash, Lines
      <3>3. \A k \in DOMAIN entry : entry[k] = e
        BY <3>1
      <3>4. tail' = <<>> \/ \E k \in DOMAIN entry, w \in BOOLEAN :
                               tail' = <<[entry |-> entry[k], whole |-> w]>>
        BY <3>2
      <3> QED  BY <3>1, <3>3, <3>4
    <2>2. CASE pc # "append"
      BY <2>2 DEF Crash
    <2> QED  BY <2>1, <2>2
  <1>3. TypeOK'
    <2>1. FlagsOK' /\ auditAhead' \in BOOLEAN /\ cases' \in {"none", "pooled", "torn"}
      BY <1>1 DEF Crash, IInv, TypeOK, FlagsOK
    <2>2. \/ tail' = <<>>
          \/ \E e \in Log!Entry, w \in BOOLEAN : tail' = <<[entry |-> e, whole |-> w]>>
      BY <1>2
    <2>3. ctl' \in Controller
      BY <1>1, NewIsController
    <2>4. /\ phase' \in {"none", "completed", "stopped", "interrupted", "quarantined", "error"}
          /\ launches' \in 0..MaxLaunches /\ ledger' \in Seq(Log!Entry)
          /\ snap' \in [ctl : Controller, count : Nat]
          /\ ops' \in [Interventions -> {"none", "running", "cancelling", "succeeded", "failed"}]
      BY <1>1 DEF IInv, TypeOK
    <2>5. pc' \in PCs /\ next' \in PCs
      BY <1>1 DEF PCs
    <2> QED  BY <1>1, <2>1, <2>2, <2>3, <2>4, <2>5 DEF TypeOK, FlagsOK
  <1>4. WellKept(ledger)' /\ SnapOK'
    BY <1>1 DEF IInv, SnapOK
  <1>5. TailOK'
    <2> SUFFICES ASSUME tail' # <<>>  PROVE Fits(ledger', tail'[1].entry)
      BY <1>1 DEF TailOK
    <2>1. PICK e \in Log!Entry, w \in BOOLEAN :
            tail' = <<[entry |-> e, whole |-> w]>> /\ Fits(ledger, e)
      BY <1>2
    <2>2. tail'[1].entry = e
      BY <2>1
    <2> QED  BY <1>1, <2>1, <2>2
  <1>6. EntryOK' /\ UnconfirmedOK' /\ RoomOK' /\ MemoryMatchesLedger'
        /\ OnlyGapsAreRefused'
    BY <1>1 DEF EntryOK, UnconfirmedOK, RoomOK, Starting, MemoryMatchesLedger, Alive,
                OnlyGapsAreRefused
  <1>7. OpsOK'
    BY <1>1 DEF IInv, OpsOK, NextIntervention
  <1> QED  BY <1>3, <1>4, <1>5, <1>6, <1>7 DEF IInv

(* The file after the repair is still well kept, and the snapshot is about  *)
(* a prefix of it.                                                          *)
LEMMA RepairedKept ==
  ASSUME IInv
  PROVE  /\ WellKept(Repaired) /\ Repaired \in Logs /\ Len(Repaired) \in Nat
         /\ snap.count \in 0..Len(Repaired)
         /\ Says(snap.ctl, SubSeq(Repaired, 1, snap.count))
         /\ \A i \in Interventions : ops[i] # "none" => i <= Count(Repaired) + 1
  <1>1. /\ WellKept(ledger) /\ ledger \in Logs /\ Len(ledger) \in Nat
        /\ snap.count \in 0..Len(ledger) /\ Says(snap.ctl, SubSeq(ledger, 1, snap.count))
    BY LenProperties DEF IInv, WellKept, SnapOK, Logs
  <1>2. /\ Count(ledger) \in Nat
        /\ \A i \in Interventions : ops[i] # "none" => i <= Count(ledger) + 1 /\ i \in Nat
    BY <1>1, CountType, ControllerAssumption DEF IInv, OpsOK, NextIntervention, Count,
       Interventions
  <1>3. CASE tail # <<>> /\ tail[1].whole
    <2>1. PICK e \in Log!Entry, w \in BOOLEAN : tail = <<[entry |-> e, whole |-> w]>>
      BY <1>3 DEF IInv, TypeOK
    <2>2. tail[1].entry = e
      BY <2>1
    <2>3. Fits(ledger, e) /\ Repaired = Append(ledger, e)
      BY <1>3, <2>2 DEF IInv, TailOK, Repaired
    <2>4. /\ WellKept(Repaired) /\ Repaired \in Logs /\ Len(Repaired) = Len(ledger) + 1
          /\ SubSeq(Repaired, 1, snap.count) = SubSeq(ledger, 1, snap.count)
      BY <1>1, <2>3, AppendedKept, Appended, PrefixKept
    <2>5. Count(Repaired) \in {Count(ledger), Count(ledger) + 1}
      BY <1>1, <2>3, AppendedCount DEF Fits
    <2>6. \A i \in Interventions : ops[i] # "none" => i <= Count(Repaired) + 1
      BY <1>2, <2>5
    <2>7. snap.count \in 0..Len(Repaired) /\ Len(Repaired) \in Nat
      BY <1>1, <2>4
    <2> QED  BY <1>1, <2>4, <2>6, <2>7
  <1>4. CASE ~(tail # <<>> /\ tail[1].whole)
    <2>1. Repaired = ledger
      BY <1>4 DEF Repaired
    <2> QED  BY <1>1, <1>2, <2>1
  <1> QED  BY <1>3, <1>4

(* What recovery puts together from the snapshot and the ledger.            *)
LEMMA ReconciledSays ==
  ASSUME IInv, Recoverable
  PROVE  Reconciled \in Controller /\ Says(Reconciled, Repaired)
  <1> DEFINE p == SubSeq(Repaired, 1, snap.count)
             c == snap.ctl
  <1>1. /\ Repaired \in Logs /\ snap.count \in 0..Len(Repaired) /\ Says(c, p)
        /\ c \in Controller
    BY RepairedKept DEF IInv, TypeOK
  <1>2. p \in Logs /\ Surplus \in Logs
    BY <1>1, Split DEF Surplus
  <1>3. Log!Started(Surplus) = {}
    BY DEF Recoverable, Log!Started
  <1>4. /\ Log!Started(Repaired) = Log!Started(p)
        /\ Log!Answered(Repaired) = Log!Answered(p) \union Log!Answered(Surplus)
        /\ Log!Incumbent(Repaired) = IF Log!Promoted(Surplus) = {} THEN Log!Incumbent(p)
                                                                ELSE Log!Incumbent(Surplus)
    <2>1. /\ Log!Started(Repaired) = Log!Started(p) \union Log!Started(Surplus)
          /\ Log!Answered(Repaired) = Log!Answered(p) \union Log!Answered(Surplus)
      BY <1>1, SplitSays DEF Surplus
    <2>2. Log!Incumbent(Repaired) = IF Log!Promoted(Surplus) = {} THEN Log!Incumbent(p)
                                                                ELSE Log!Incumbent(Surplus)
      BY <1>1, SplitIncumbent DEF Surplus
    <2> QED  BY <1>3, <2>1, <2>2
  <1> HIDE DEF p
  <1>5. Log!Unanswered(Repaired) = c.pending \ Log!Answered(Surplus)
    BY <1>1, <1>4 DEF Says, Log!Unanswered
  <1>6. Count(Repaired) = c.consumed
    BY <1>1, <1>4 DEF Says, Count
  <1>7. Log!Incumbent(Repaired) = IF Log!Promoted(Surplus) = {} THEN c.incumbent
                                                            ELSE Log!Incumbent(Surplus)
    BY <1>1, <1>4 DEF Says
  <1>8. Log!Incumbent(Surplus) \in Interventions \union {0}
    BY <1>2, IncumbentType
  <1>9. CASE Surplus = <<>>
    <2>1. Log!Answered(Surplus) = {} /\ Log!Promoted(Surplus) = {}
      BY <1>9 DEF Log!Answered, Log!Promoted
    <2>2. Reconciled = c
      BY <1>9 DEF Reconciled
    <2> QED  BY <1>1, <1>5, <1>6, <1>7, <2>1, <2>2 DEF Says
  <1>10. CASE Surplus # <<>>
    <2> DEFINE d == [c EXCEPT !.pending = @ \ Log!Answered(Surplus),
                       !.incumbent = IF Log!Promoted(Surplus) = {} THEN @
                                                               ELSE Log!Incumbent(Surplus)]
               k == IF Log!Promoted(Surplus) = {} THEN c.incumbent ELSE Log!Incumbent(Surplus)
    <2>1. k \in Interventions \union {0}
      BY <1>1, <1>8, FieldsOf
    <2>2. d = [c EXCEPT !.pending = c.pending \ Log!Answered(Surplus), !.incumbent = k]
      BY <1>1 DEF Controller
    <2> HIDE DEF k
    <2>3. /\ d \in Controller /\ d.pending = c.pending \ Log!Answered(Surplus)
          /\ d.consumed = c.consumed /\ d.incumbent = k
      BY <1>1, <2>1, <2>2 DEF Controller
    <2>4. \E st \in States : Reconciled = [d EXCEPT !.state = st]
      <3>1. d.state \in States
        BY <2>3, FieldsOf
      <3> QED  BY <1>10, <3>1 DEF Reconciled, States
    <2> HIDE DEF d
    <2>5. PICK st \in States : Reconciled = [d EXCEPT !.state = st]
      BY <2>4
    <2>6. Remembers([d EXCEPT !.state = st], d)
      BY <2>3, Changes
    <2>7. Remembers(Reconciled, d)
      BY <2>5, <2>6
    <2> QED  BY <1>5, <1>6, <1>7, <2>3, <2>7 DEF Remembers, Says, k
  <1> QED  BY <1>9, <1>10

LEMMA RecoveredSays ==
  ASSUME IInv, Recoverable
  PROVE  Recovered \in Controller /\ Says(Recovered, Repaired)
  <1>1. Reconciled \in Controller /\ Says(Reconciled, Repaired)
    BY ReconciledSays
  <1>2. Reconciled.state \in States
    BY <1>1, FieldsOf
  <1>3. \E st \in States : Recovered = [Reconciled EXCEPT !.state = st]
    BY <1>2 DEF Recovered, States
  <1>4. PICK st \in States : Recovered = [Reconciled EXCEPT !.state = st]
    BY <1>3
  <1>5. Remembers([Reconciled EXCEPT !.state = st], Reconciled)
    BY <1>1, Changes
  <1>6. Remembers(Recovered, Reconciled)
    BY <1>4, <1>5
  <1> QED  BY <1>1, <1>6 DEF Remembers, Says

LEMMA LaunchAgainKeeps ==
  ASSUME IInv, LaunchAgain
  PROVE  IInv'
  <1>1. /\ pc' = "top" /\ ctl' = Recovered /\ snap' = [ctl |-> Recovered, count |-> Len(Repaired)]
        /\ ledger' = Repaired /\ tail' = <<>> /\ launches' = launches + 1 /\ launches < MaxLaunches
        /\ Recoverable /\ pc \in {"down", "ended"}
        /\ UNCHANGED <<next, entry, reply, phase, auditAhead, cases, ops>>
    BY DEF LaunchAgain, Launchable
  <1>2. Recovered \in Controller /\ Says(Recovered, Repaired)
    BY <1>1, RecoveredSays
  <1>3. /\ WellKept(Repaired) /\ Repaired \in Logs /\ Len(Repaired) \in Nat
        /\ \A i \in Interventions : ops[i] # "none" => i <= Count(Repaired) + 1
    BY RepairedKept
  <1>4. entry = <<>>
    BY <1>1 DEF IInv, EntryOK
  <1>5. TypeOK'
    <2>1. FlagsOK' /\ auditAhead' \in BOOLEAN /\ cases' \in {"none", "pooled", "torn"}
      BY DEF LaunchAgain, IInv, TypeOK, FlagsOK
    <2>2. snap' \in [ctl : Controller, count : Nat] /\ ledger' \in Seq(Log!Entry)
      BY <1>1, <1>2, <1>3 DEF Logs
    <2>3. launches' \in 0..MaxLaunches
      BY <1>1, ControllerAssumption DEF IInv, TypeOK
    <2>4. /\ next' \in PCs /\ reply' \in {"none", "accepted", "failed", "lost"}
          /\ phase' \in {"none", "completed", "stopped", "interrupted", "quarantined", "error"}
          /\ ops' \in [Interventions -> {"none", "running", "cancelling", "succeeded", "failed"}]
      BY <1>1 DEF IInv, TypeOK
    <2>5. pc' \in PCs /\ ctl' \in Controller /\ entry' = <<>> /\ tail' = <<>>
      BY <1>1, <1>2, <1>4 DEF PCs
    <2> QED  BY <2>1, <2>2, <2>3, <2>4, <2>5 DEF TypeOK, FlagsOK
  <1>6. WellKept(ledger)' /\ SnapOK'
    <2>1. SubSeq(Repaired, 1, Len(Repaired)) = Repaired
      BY <1>3, SubSeqFull DEF Logs
    <2>2. snap'.ctl = Recovered /\ snap'.count = Len(Repaired)
      BY <1>1
    <2>3. Says(snap'.ctl, SubSeq(ledger', 1, snap'.count))
      BY <1>1, <1>2, <2>1, <2>2
    <2>4. snap'.count \in 0..Len(ledger') /\ WellKept(ledger')
      BY <1>1, <1>3, <2>2
    <2> QED  BY <2>3, <2>4 DEF SnapOK
  <1>7. EntryOK' /\ TailOK' /\ UnconfirmedOK' /\ OnlyGapsAreRefused'
    BY <1>1, <1>4 DEF EntryOK, TailOK, UnconfirmedOK, OnlyGapsAreRefused
  <1>8. RoomOK'
    BY <1>1 DEF IInv, RoomOK, Starting
  <1>9. MemoryMatchesLedger'
    <2>1. Written' = Repaired
      BY <1>1 DEF Written
    <2> QED  BY <1>1, <1>2, <2>1 DEF MemoryMatchesLedger, Says, Count
  <1>10. OpsOK'
    BY <1>1, <1>3 DEF OpsOK, NextIntervention, Count
  <1> QED  BY <1>5, <1>6, <1>7, <1>8, <1>9, <1>10 DEF IInv

(* An entry that recovery cannot place is a start, or answers one that the  *)
(* snapshot has not seen either.                                            *)
LEMMA OnlyStartsStop ==
  ASSUME IInv, ~Recoverable
  PROVE  \/ auditAhead \/ cases # "none"
         \/ \E n \in snap.count + 1 .. Len(Repaired) : Repaired[n].kind = "start"
  <1> DEFINE p == SubSeq(Repaired, 1, snap.count)
             c == snap.ctl
  <1>1. /\ Repaired \in Logs /\ snap.count \in 0..Len(Repaired) /\ Says(c, p)
        /\ Len(Repaired) \in Nat /\ Ordered(Repaired)
    BY RepairedKept DEF WellKept
  <1>2. SUFFICES ASSUME ~auditAhead, cases = "none",
                        \A n \in snap.count + 1 .. Len(Repaired) : Repaired[n].kind # "start"
                 PROVE  FALSE
    OBVIOUS
  <1>3. PICK k \in DOMAIN Surplus : ~(Surplus[k].kind = "terminal" /\ Surplus[k].id \in c.pending)
    BY <1>2 DEF Recoverable
  <1> DEFINE n == snap.count + k
  <1>4. /\ n \in snap.count + 1 .. Len(Repaired) /\ n \in DOMAIN Repaired
        /\ Surplus[k] = Repaired[n] /\ DOMAIN Repaired = 1..Len(Repaired)
    <2>1. /\ DOMAIN Surplus = 1..(Len(Repaired) - snap.count)
          /\ Surplus[k] = Repaired[n] /\ DOMAIN Repaired = 1..Len(Repaired)
      BY <1>1, Split DEF Surplus
    <2> QED  BY <1>1, <2>1
  <1>5. Repaired[n].kind = "terminal" /\ Repaired[n].id \notin c.pending
    <2>1. Repaired[n].kind \in {"start", "terminal"}
      BY <1>1, <1>4, EntryAt, EntryFields
    <2> QED  BY <1>2, <1>3, <1>4, <2>1
  <1>6. /\ \A m \in 1..snap.count : p[m] = Repaired[m]
        /\ DOMAIN p = 1..snap.count
    BY <1>1, Split
  <1> HIDE DEF n, p
  <1>7. PICK m \in 1..(n - 1) : Repaired[m].kind = "start" /\ Repaired[m].id = Repaired[n].id
    BY <1>1, <1>4, <1>5 DEF Ordered
  <1>8. m \in 1..snap.count
    BY <1>1, <1>2, <1>4, <1>7
  <1>9. Repaired[n].id \in Log!Started(p)
    BY <1>6, <1>7, <1>8 DEF Log!Started
  <1>10. Repaired[n].id \in Log!Answered(p)
    BY <1>1, <1>5, <1>9 DEF Says, Log!Unanswered
  <1>11. PICK j \in 1..snap.count : Repaired[j].kind = "terminal" /\ Repaired[j].id = Repaired[n].id
    BY <1>6, <1>10 DEF Log!Answered
  <1>12. j \in 1..(n - 1)
    BY <1>1, <1>4
  <1> QED  BY <1>1, <1>4, <1>5, <1>11, <1>12 DEF Ordered

LEMMA LaunchFailsKeeps ==
  ASSUME IInv, LaunchFails
  PROVE  IInv'
  <1>1. /\ pc' = "unrecoverable" /\ ledger' = Repaired /\ tail' = <<>> /\ ~Recoverable
        /\ launches' = launches + 1 /\ launches < MaxLaunches /\ pc \in {"down", "ended"}
        /\ UNCHANGED <<next, ctl, entry, reply, phase, flags, snap, auditAhead, cases, ops>>
    BY DEF LaunchFails, Launchable
  <1>2. /\ WellKept(Repaired) /\ Repaired \in Logs /\ snap.count \in 0..Len(Repaired)
        /\ Says(snap.ctl, SubSeq(Repaired, 1, snap.count))
        /\ \A i \in Interventions : ops[i] # "none" => i <= Count(Repaired) + 1
    BY RepairedKept
  <1>3. entry = <<>>
    BY <1>1 DEF IInv, EntryOK
  <1>4. TypeOK'
    <2>1. FlagsOK' /\ auditAhead' \in BOOLEAN /\ cases' \in {"none", "pooled", "torn"}
      BY <1>1 DEF IInv, TypeOK, FlagsOK, flags
    <2>2. snap' \in [ctl : Controller, count : Nat] /\ ledger' \in Seq(Log!Entry)
      BY <1>1, <1>2 DEF IInv, TypeOK, Logs
    <2>3. launches' \in 0..MaxLaunches
      BY <1>1, ControllerAssumption DEF IInv, TypeOK
    <2>4. /\ next' \in PCs /\ reply' \in {"none", "accepted", "failed", "lost"}
          /\ phase' \in {"none", "completed", "stopped", "interrupted", "quarantined", "error"}
          /\ ops' \in [Interventions -> {"none", "running", "cancelling", "succeeded", "failed"}]
      BY <1>1 DEF IInv, TypeOK
    <2>5. pc' \in PCs /\ ctl' \in Controller /\ entry' = <<>> /\ tail' = <<>>
      BY <1>1, <1>3 DEF PCs, IInv, TypeOK
    <2> QED  BY <2>1, <2>2, <2>3, <2>4, <2>5 DEF TypeOK, FlagsOK
  <1>5. WellKept(ledger)' /\ SnapOK' /\ OpsOK'
    BY <1>1, <1>2 DEF SnapOK, OpsOK, NextIntervention, Count
  <1>6. EntryOK' /\ TailOK' /\ UnconfirmedOK' /\ MemoryMatchesLedger'
    BY <1>1, <1>3 DEF EntryOK, TailOK, UnconfirmedOK, MemoryMatchesLedger, Alive
  <1>7. RoomOK'
    BY <1>1 DEF IInv, RoomOK, Starting
  <1>8. OnlyGapsAreRefused'
    BY <1>1, OnlyStartsStop DEF OnlyGapsAreRefused
  <1> QED  BY <1>4, <1>5, <1>6, <1>7, <1>8 DEF IInv

-----------------------------------------------------------------------------
(* The inductive invariant *)

LEMMA ThreadKeeps ==
  ASSUME IInv, Thread
  PROVE  IInv'
  <1>1. CASE Loop
    BY <1>1, EndDrainedKeeps, EndDecidedKeeps, EndStoppedKeeps, EndQuarantinedKeeps,
       TurnRefusedKeeps, StartTurnKeeps, AfterTurnKeeps DEF Loop
  <1>2. CASE Plan
    BY <1>2, FillEndsKeeps, FillRetriesKeeps, PlanExhaustedKeeps, PlanBeginsKeeps,
       TurnRaisesKeeps, PlannerProposesKeeps, PlannerDecidesKeeps, NothingToProposeKeeps,
       PlannerDefersKeeps, AnswerUnreadableKeeps, RepairBeginsKeeps DEF Plan
  <1>3. CASE Execute
    BY <1>3, StopBeforeExecutionKeeps, DispatchKeeps, ExecuteExhaustedKeeps,
       ExecuteStaleKeeps, ExecuteBusyKeeps, StartsKeep, UnconfirmedKeeps DEF Execute
  <1>4. CASE Absorb
    BY <1>4, SettleKeeps, AbsorbNothingKeeps, GivesUpWaiting, RequestCancelsKeeps,
       CollectKeeps, EvidenceMissingKeeps DEF Absorb
  <1> QED  BY <1>1, <1>2, <1>3, <1>4, AppendEntryKeeps, RecordKeeps, PersistKeeps
      DEF Thread

LEMMA NextKeeps ==
  ASSUME IInv, [Next]_vars
  PROVE  IInv'
  BY ThreadKeeps, TimeRunsOutKeeps, ControlKeeps, CrashKeeps, LaunchAgainKeeps,
     LaunchFailsKeeps, OpFinishesKeeps, StutterKeeps DEF Next, Relaunch

LEMMA Inductive == Spec => []IInv
  BY InitIInv, NextKeeps, PTL DEF Spec

(* Every variable keeps its shape; above all the counters stay within the   *)
(* frozen budget and the ledger holds only well-formed entries.             *)
THEOREM TypeCorrect == Spec => []TypeOK
  BY Inductive, PTL DEF IInv

(* What the controller remembers is what the ledger says, however often the *)
(* episode crashes and is recovered (controller_recovery.py).               *)
THEOREM MemoryIsLedger == Spec => []MemoryMatchesLedger
  BY Inductive, PTL DEF IInv

(* The frozen budget holds across every crash and relaunch                  *)
(* (budget_contracts.py, controller_execution.py).                          *)
THEOREM BudgetIsKept == Spec => []BudgetKept
  <1>1. IInv => BudgetKept
    <2> SUFFICES ASSUME IInv PROVE BudgetKept  OBVIOUS
    <2>1. Cardinality(Log!Started(ledger)) <= CandidateLimit
      BY CountType, ControllerAssumption DEF IInv, WellKept, Count
    <2>2. ctl.calls <= PlanLimit
      BY FieldsOf, ControllerAssumption DEF IInv, TypeOK
    <2> QED  BY <2>1, <2>2 DEF IInv, WellKept, OpsOK, BudgetKept
  <1> QED  BY <1>1, Inductive, PTL

(* Recovery refuses an episode only for an audit entry or a start that was  *)
(* written and not yet persisted, for a case in the pool, or for a torn     *)
(* line of the case files; never for an outcome that only the ledger has    *)
(* (recover and _surplus_terminal_outcomes in controller_recovery.py).      *)
THEOREM RecoveryRefusesOnlyGaps == Spec => []OnlyGapsAreRefused
  BY Inductive, PTL DEF IInv

-----------------------------------------------------------------------------
(* The refinement *)

(* What a step does to the file.                                            *)
Records == \E e \in Log!Entry : Log!Accepts(ledger, e) /\ ledger' = Append(ledger, e)

LEMMA RepairRecords ==
  ASSUME IInv, ledger' = Repaired
  PROVE  ledger' = ledger \/ Records
  <1>1. CASE tail # <<>> /\ tail[1].whole
    <2>1. PICK e \in Log!Entry, w \in BOOLEAN : tail = <<[entry |-> e, whole |-> w]>>
      BY <1>1 DEF IInv, TypeOK
    <2>2. tail[1].entry = e
      BY <2>1
    <2> QED  BY <1>1, <2>2 DEF IInv, TailOK, Repaired, Fits, Records
  <1>2. CASE ~(tail # <<>> /\ tail[1].whole)
    BY <1>2 DEF Repaired
  <1> QED  BY <1>1, <1>2

LEMMA LedgerGrows ==
  ASSUME IInv, [Next]_vars
  PROVE  ledger' = ledger \/ Records
  <1>1. CASE Loop
    BY <1>1 DEF Loop, EndDrained, EndDecided, EndStopped, EndQuarantined, TurnRefused,
       Raises,
       StartTurn, AfterTurn, Ends, Goes, disk
  <1>2. CASE Plan
    BY <1>2 DEF Plan, FillEnds, FillRetries, PlanExhausted, PlanBegins, TurnRaises,
       PlannerProposes, PlannerDecides, NothingToPropose, PlannerDefers, AnswerUnreadable,
       GivesUpPlanning, RepairBegins, Raises, Ends, Goes, Persists, Audits, disk
  <1>3. CASE Execute
    BY <1>3 DEF Execute, StopBeforeExecution, Dispatch, ExecuteExhausted, ExecuteStale,
       ExecuteBusy, ExecuteAccepted, ExecuteFailedAtOnce, ExecuteLost, Unconfirmed,
       Registers, Merge, Persists, Goes, disk
  <1>4. CASE Absorb
    BY <1>4 DEF Absorb, Settle, AbsorbNothing, WaitFails, RequestCancels, GiveUp, Collect,
       EvidenceMissing, Merge, Raises, Ends, Goes, disk
  <1>5. CASE AppendEntry
    <2>1. PICK e \in {entry[k] : k \in DOMAIN entry} :
            Log!Accepts(ledger, e) /\ ledger' = Append(ledger, e)
      BY <1>5 DEF AppendEntry
    <2>2. e \in Log!Entry
      BY <2>1 DEF IInv, TypeOK
    <2> QED  BY <2>1, <2>2 DEF Records
  <1>6. CASE Record \/ Persist \/ TimeRunsOut \/ Control \/ Crash \/ (\E i \in Interventions : OpFinishes(i))
             \/ UNCHANGED vars
    BY <1>6 DEF Record, RecordCase, RecordingRaises, Ends, Persist, TimeRunsOut, Control,
       Pause, Resume, RequestStop, PrepareShutdown,
       CancelShutdown, Sets, Crash, OpFinishes, vars, disk
  <1>7. CASE Relaunch
    BY <1>7, RepairRecords DEF Relaunch, LaunchAgain, LaunchFails
  <1> QED  BY <1>1, <1>2, <1>3, <1>4, <1>5, <1>6, <1>7 DEF Next, Thread

(* Whatever is torn, repaired and replayed, the file is the log that the    *)
(* ledger promises (ledger.py, OptimizationLedger).                         *)
THEOREM LedgerRefined == Spec => LedgerIsLog
  <1>1. Init => Log!Init
    BY DEF Init, Log!Init
  <1>2. IInv /\ [Next]_vars => [Log!Next]_ledger
    BY LedgerGrows DEF Records, Log!Next, Log!Record
  <1> QED  BY <1>1, <1>2, Inductive, PTL DEF Spec, LedgerIsLog, Log!Spec

-----------------------------------------------------------------------------
(* What the ledger is asked to append *)

(* The ledger never refuses its controller: a new candidate has a key, a slot *)
(* and a share of the budget, the outcome of a candidate follows its start    *)
(* and no other outcome, and a line that was written whole before a crash     *)
(* still fits the file.                                                      *)
AppendsAreAccepted ==
  /\ Executing => /\ NextIntervention \in Interventions \ Log!Started(ledger)
                  /\ HasSlot(ctl)
  /\ pc = "append" => \E e \in Log!Entry : entry = <<e>> /\ Log!Accepts(ledger, e)
  /\ pc = "unconfirmed" =>
       /\ Len(ledger) > 0 /\ ledger[Len(ledger)].kind = "start"
       /\ \A o \in Log!Outcomes :
            Log!Accepts(ledger, Log!TerminalEntry(ledger[Len(ledger)].id, o))
  /\ tail # <<>> => Log!Accepts(ledger, tail[1].entry)

LEMMA NextKeyIsFree ==
  ASSUME IInv, Executing
  PROVE  NextIntervention \in Interventions \ Log!Started(ledger) /\ HasSlot(ctl)
  <1>1. /\ pc = "execute" /\ HasSlot(ctl) /\ ctl.consumed # CandidateLimit
        /\ Log!Started(ledger) = 1..Count(ledger) /\ ctl \in Controller
    BY DEF IInv, TypeOK, WellKept, Executing, Exhausted, RoomOK, Starting
  <1>2. ctl.consumed = Count(ledger)
    BY <1>1 DEF IInv, MemoryMatchesLedger, Written, Alive, Count
  <1>3. ctl.consumed \in 0..CandidateLimit
    BY <1>1, FieldsOf
  <1>4. NextIntervention = Count(ledger) + 1
    BY DEF NextIntervention, Count
  <1> QED  BY <1>1, <1>2, <1>3, <1>4, ControllerAssumption DEF Interventions

(* Neither a start nor an outcome is ever refused by the ledger, over every   *)
(* crash, torn line and lost answer: the appends of the controller, which     *)
(* the ledger would answer with an error, always go through.                 *)
THEOREM LedgerNeverRefuses == Spec => []AppendsAreAccepted
  <1>1. IInv => AppendsAreAccepted
    <2> SUFFICES ASSUME IInv PROVE AppendsAreAccepted  OBVIOUS
    <2>1. pc = "append" => \E e \in Log!Entry : entry = <<e>> /\ Log!Accepts(ledger, e)
      BY DEF IInv, EntryOK, Fits
    <2>2. ASSUME pc = "unconfirmed"
          PROVE  /\ Len(ledger) > 0 /\ ledger[Len(ledger)].kind = "start"
                 /\ \A o \in Log!Outcomes :
                      Log!Accepts(ledger, Log!TerminalEntry(ledger[Len(ledger)].id, o))
      <3>1. /\ Len(ledger) > 0 /\ ledger[Len(ledger)].kind = "start"
            /\ ledger[Len(ledger)].id \in Log!Unanswered(ledger)
        BY <2>2 DEF IInv, UnconfirmedOK
      <3> QED  BY <3>1 DEF Log!Accepts, Log!TerminalEntry
    <2>3. tail # <<>> => Log!Accepts(ledger, tail[1].entry)
      BY DEF IInv, TailOK, Fits
    <2> QED  BY <2>1, <2>2, <2>3, NextKeyIsFree DEF AppendsAreAccepted
  <1> QED  BY <1>1, Inductive, PTL

-----------------------------------------------------------------------------
(* What the ledger says of ECC *)

Finished == {"succeeded", "failed"}
Runs(i)   == ops[i] \in {"running", "cancelling"}
GaveUp(i) == \E n \in DOMAIN ledger : ledger[n] = Log!TerminalEntry(i, "indeterminate")

(* An outcome other than "indeterminate" is one that ECC, at o, has reached.  *)
Backed(e, o) == /\ e.outcome = "improved" => o[e.id] = "succeeded"
                /\ e.outcome = "other" => o[e.id] \in Finished

(* The ledger says nothing of ECC that is not so: outcomes are those of        *)
(* operations that have finished, the incumbent is a candidate that succeeded, *)
(* and an operation that still runs is one the episode waits for, one it has   *)
(* given up, or the next one, whose start was not recorded.                    *)
OutcomesAreProven ==
  /\ \A n \in DOMAIN ledger : Backed(ledger[n], ops)
  /\ Log!Incumbent(ledger) # 0 => ops[Log!Incumbent(ledger)] = "succeeded"
  /\ \A i \in Interventions :
       Runs(i) => i \in Log!Unanswered(ledger) \/ i = NextIntervention \/ GaveUp(i)

(* The strengthening: so is the entry that is being written and a torn line,   *)
(* and a start that ECC answered with a failure is one of a failed operation.  *)
FailedReply(i) == reply \in {"failed", "lost"} /\ (reply = "failed" => ops[i] = "failed")
LedgerBacked == \A n \in DOMAIN ledger : Backed(ledger[n], ops)
EntryBacked == pc = "append" =>
  /\ Backed(entry[1], ops)
  /\ entry[1].kind = "start" => reply = "accepted" \/ FailedReply(entry[1].id)
TailBacked == tail # <<>> => Backed(tail[1].entry, ops)
ReplyKept == pc = "unconfirmed" => FailedReply(ledger[Len(ledger)].id)
EvInv == LedgerBacked /\ EntryBacked /\ TailBacked /\ ReplyKept

(* An operation that has finished stays finished.                             *)
OpsGoOn == \A i \in Interventions : ops[i] \in Finished => ops'[i] = ops[i]
Quiet == /\ UNCHANGED <<ledger, entry, tail>> /\ OpsGoOn
         /\ pc' \notin {"append", "unconfirmed"} \/ UNCHANGED <<pc, reply>>

LEMMA BackedStays ==
  ASSUME OpsGoOn, NEW e \in Log!Entry, Backed(e, ops)
  PROVE  Backed(e, ops')
  <1>1. e.id \in Interventions
    BY EntryFields
  <1> QED  BY <1>1 DEF OpsGoOn, Backed, Finished

LEMMA LedgerStays ==
  ASSUME IInv, EvInv, OpsGoOn, UNCHANGED ledger
  PROVE  LedgerBacked'
  <1>1. ASSUME NEW n \in DOMAIN ledger  PROVE Backed(ledger[n], ops')
    <2>1. ledger[n] \in Log!Entry
      BY EntryAt DEF IInv, WellKept
    <2>2. Backed(ledger[n], ops)
      BY DEF EvInv, LedgerBacked
    <2> QED  BY <2>1, <2>2, BackedStays
  <1> QED  BY <1>1 DEF LedgerBacked

LEMMA QuietKeeps ==
  ASSUME IInv, EvInv, Quiet
  PROVE  EvInv'
  <1>1. LedgerBacked'
    BY LedgerStays DEF Quiet
  <1>2. EntryBacked'
    <2> SUFFICES ASSUME pc' = "append"  PROVE EntryBacked'
      BY DEF EntryBacked
    <2>1. pc = "append" /\ reply' = reply /\ entry' = entry
      BY DEF Quiet
    <2>2. PICK e \in Log!Entry : entry = <<e>>
      BY <2>1 DEF IInv, EntryOK
    <2>3. entry[1] = e /\ e.id \in Interventions
      BY <2>2, EntryFields
    <2>4. Backed(e, ops) /\ (e.kind = "start" => reply = "accepted" \/ FailedReply(e.id))
      BY <2>1, <2>3 DEF EvInv, EntryBacked
    <2>5. Backed(e, ops')
      BY <2>4, BackedStays DEF Quiet
    <2>6. e.kind = "start" => reply' = "accepted" \/ FailedReply(e.id)'
      BY <2>1, <2>3, <2>4 DEF FailedReply, Quiet, OpsGoOn, Finished
    <2> QED  BY <2>1, <2>3, <2>5, <2>6 DEF EntryBacked, FailedReply
  <1>3. TailBacked'
    <2> SUFFICES ASSUME tail # <<>>  PROVE Backed(tail[1].entry, ops')
      BY DEF TailBacked, Quiet
    <2>1. PICK e \in Log!Entry, w \in BOOLEAN : tail = <<[entry |-> e, whole |-> w]>>
      BY DEF IInv, TypeOK
    <2>2. tail[1].entry = e
      BY <2>1
    <2> QED  BY <2>2, BackedStays DEF EvInv, TailBacked, Quiet
  <1>4. ReplyKept'
    <2> SUFFICES ASSUME pc' = "unconfirmed"  PROVE FailedReply(ledger[Len(ledger)].id)'
      BY DEF ReplyKept
    <2>1. pc = "unconfirmed" /\ reply' = reply /\ ledger' = ledger
      BY DEF Quiet
    <2>2. Len(ledger) \in DOMAIN ledger
      BY <2>1 DEF IInv, UnconfirmedOK, WellKept, Logs
    <2>3. ledger[Len(ledger)].id \in Interventions
      BY <2>2, EntryAt, EntryFields DEF IInv, WellKept
    <2> QED  BY <2>1, <2>3 DEF EvInv, ReplyKept, FailedReply, Quiet, OpsGoOn, Finished
  <1> QED  BY <1>1, <1>2, <1>3, <1>4 DEF EvInv

(* Every step that decides on no entry and writes none.                      *)
LEMMA LoopIsQuiet ==
  ASSUME IInv, Loop
  PROVE  Quiet
  BY DEF Loop, EndDrained, EndDecided, EndStopped, EndQuarantined, TurnRefused, Raises,
     StartTurn, AfterTurn, Ends, Goes, disk, Quiet, OpsGoOn

LEMMA PlanIsQuiet ==
  ASSUME IInv, Plan
  PROVE  Quiet
  BY DEF Plan, FillEnds, FillRetries, PlanExhausted, PlanBegins, TurnRaises,
     PlannerProposes, PlannerDecides, NothingToPropose, PlannerDefers, AnswerUnreadable,
     GivesUpPlanning, RepairBegins, Raises, Ends, Goes, Persists, Audits, PersistsThen,
     disk, Quiet, OpsGoOn

LEMMA ExecuteIsQuiet ==
  ASSUME IInv, StopBeforeExecution \/ Dispatch \/ ExecuteExhausted \/ ExecuteStale \/ ExecuteBusy
  PROVE  Quiet
  BY DEF StopBeforeExecution, Dispatch, ExecuteExhausted, ExecuteStale, ExecuteBusy,
     Persists, PersistsThen, Goes, disk, Quiet, OpsGoOn

LEMMA AbsorbIsQuiet ==
  ASSUME IInv, Settle \/ AbsorbNothing \/ RequestCancels \/ \E i \in Interventions : EvidenceMissing(i)
  PROVE  Quiet
  <1>1. CASE RequestCancels
    <2>1. OpsGoOn
      BY <1>1 DEF RequestCancels, OpsGoOn, Finished
    <2> QED  BY <1>1, <2>1 DEF RequestCancels, disk, Quiet
  <1>2. CASE Settle \/ AbsorbNothing \/ \E i \in Interventions : EvidenceMissing(i)
    BY <1>2 DEF Settle, AbsorbNothing, EvidenceMissing, Raises, Ends, Goes, disk, Quiet,
       OpsGoOn
  <1> QED  BY <1>1, <1>2

LEMMA OthersAreQuiet ==
  ASSUME IInv, \/ Record \/ Persist \/ TimeRunsOut \/ Control \/ UNCHANGED vars
               \/ \E i \in Interventions : OpFinishes(i)
  PROVE  Quiet
  <1>1. CASE Record \/ Persist
    BY <1>1 DEF Record, RecordCase, RecordingRaises, Ends, disk, Persist, IInv, RoomOK,
       Quiet,
       OpsGoOn
  <1>2. CASE TimeRunsOut \/ Control \/ UNCHANGED vars
    BY <1>2 DEF TimeRunsOut, Control, Pause, Resume, RequestStop, PrepareShutdown,
       CancelShutdown, Sets, vars, thread, disk, Quiet, OpsGoOn
  <1>3. ASSUME NEW i \in Interventions, OpFinishes(i)  PROVE Quiet
    <2>1. OpsGoOn
      BY <1>3 DEF OpFinishes, OpsGoOn, Finished, IInv, TypeOK
    <2> QED  BY <1>3, <2>1 DEF OpFinishes, thread, disk, Quiet
  <1> QED  BY <1>1, <1>2, <1>3

(* Entries that are decided.                                                 *)
LEMMA DecidedKeeps ==
  ASSUME IInv, EvInv, NEW e \in Log!Entry, pc # "down", pc' = "append", entry' = <<e>>,
         UNCHANGED <<ledger, tail>>, OpsGoOn, Backed(e, ops'),
         e.kind = "start" => reply' = "accepted" \/ FailedReply(e.id)'
  PROVE  EvInv'
  <1>1. LedgerBacked'
    BY LedgerStays
  <1>2. EntryBacked'
    <2>1. entry'[1] = e
      OBVIOUS
    <2> QED  BY <2>1 DEF EntryBacked, FailedReply
  <1>3. TailBacked' /\ ReplyKept'
    BY DEF IInv, TailOK, TailBacked, ReplyKept
  <1> QED  BY <1>1, <1>2, <1>3 DEF EvInv

LEMMA MergeBacked ==
  ASSUME IInv, EvInv, pc # "down", NEW i \in Interventions, NEW o \in Outcomes, NEW p,
         Merge(i, o, p),
         o = "improved" => ops[i] = "succeeded", o = "other" => ops[i] \in Finished
  PROVE  EvInv'
  <1> DEFINE e == Log!TerminalEntry(i, o)
  <1>1. e \in Log!Entry /\ e.kind = "terminal" /\ e.id = i /\ e.outcome = o
    BY TerminalIsEntry DEF Outcomes
  <1>2. pc' = "append" /\ entry' = <<e>> /\ UNCHANGED <<ledger, tail, ops>>
    BY DEF Merge, disk
  <1> HIDE DEF e
  <1>3. OpsGoOn /\ Backed(e, ops')
    BY <1>1, <1>2 DEF OpsGoOn, Backed
  <1> QED  BY <1>1, <1>2, <1>3, DecidedKeeps

LEMMA MergesKeep ==
  ASSUME IInv, EvInv,
         \/ Unconfirmed \/ WaitFails \/ GiveUp \/ \E i \in Interventions : Collect(i)
  PROVE  EvInv'
  <1>1. CASE Unconfirmed
    <2> DEFINE i == ledger[Len(ledger)].id
               o == IF reply = "lost" THEN "indeterminate" ELSE "other"
               p == FillAgain(Merged(ctl, i, o))
    <2>1. pc = "unconfirmed" /\ Merge(i, o, p)
      BY <1>1 DEF Unconfirmed
    <2>2. i \in Interventions
      BY <2>1, SaidOf DEF IInv, UnconfirmedOK, WellKept
    <2>3. FailedReply(i)
      BY <2>1 DEF EvInv, ReplyKept
    <2>4. o \in Outcomes /\ o # "improved" /\ (o = "other" => ops[i] \in Finished)
      BY <2>3 DEF FailedReply, Outcomes, Finished
    <2> HIDE DEF i, o, p
    <2> QED  BY <2>1, <2>2, <2>4, MergeBacked
  <1>2. CASE WaitFails \/ GiveUp
    <2>1. pc # "down" /\ ~Idle /\ Merge(Oldest(ctl.pending), "indeterminate", "after")
      BY <1>2 DEF WaitFails, GiveUp, Waiting
    <2>2. Oldest(ctl.pending) \in Interventions
      BY <2>1, OldestIsPending, FieldsOf DEF IInv, TypeOK
    <2>3. "indeterminate" \in Outcomes
      BY DEF Outcomes
    <2> QED  BY <2>1, <2>2, <2>3, MergeBacked
  <1>3. ASSUME NEW i \in Interventions, Collect(i)  PROVE EvInv'
    <2>1. pc # "down"
      BY <1>3 DEF Collect, Waiting
    <2>2. PICK o \in {"improved", "other"} :
            Merge(i, o, "after") /\ (o = "improved" => ops[i] = "succeeded") /\ ops[i] \in Finished
      BY <1>3 DEF Collect, Finished
    <2> QED  BY <2>1, <2>2, MergeBacked DEF Outcomes
  <1> QED  BY <1>1, <1>2, <1>3

LEMMA RegistersBacked ==
  ASSUME IInv, EvInv, Executing, NEW r \in {"accepted", "failed", "lost"},
         Registers(NextIntervention, r), OpsGoOn,
         r = "failed" => ops'[NextIntervention] = "failed"
  PROVE  EvInv'
  <1>1. NextIntervention \in Interventions /\ pc = "execute"
    BY NextKeyIsFree DEF Executing
  <1>2. PICK i \in Interventions : i = NextIntervention
    BY <1>1
  <1>3. PICK e \in Log!Entry : /\ e = Log!StartEntry(i)
                               /\ e.kind = "start" /\ e.id = i /\ e.outcome = "none"
    BY StartIsEntry
  <1>4. pc' = "append" /\ entry' = <<e>> /\ reply' = r /\ UNCHANGED <<ledger, tail>>
    BY <1>2, <1>3 DEF Registers, disk
  <1>5. Backed(e, ops')
    BY <1>3 DEF Backed
  <1>6. reply' = "accepted" \/ FailedReply(e.id)'
    BY <1>2, <1>3, <1>4 DEF FailedReply
  <1> QED  BY <1>1, <1>4, <1>5, <1>6, DecidedKeeps

LEMMA StartsBacked ==
  ASSUME IInv, EvInv, ExecuteAccepted \/ ExecuteFailedAtOnce \/ ExecuteLost
  PROVE  EvInv'
  <1>1. /\ ops \in [Interventions -> {"none", "running", "cancelling", "succeeded", "failed"}]
        /\ Executing
    BY DEF IInv, TypeOK, ExecuteAccepted, ExecuteFailedAtOnce, ExecuteLost
  <1>2. NextIntervention \in Interventions
    BY <1>1, NextKeyIsFree
  <1>3. CASE ExecuteAccepted
    <2>1. ops' = [ops EXCEPT ![NextIntervention] = IF @ = "none" THEN "running" ELSE @]
      BY <1>3 DEF ExecuteAccepted
    <2>2. PICK r \in {"accepted", "failed"} :
            Registers(NextIntervention, r) /\ (r = "failed" => ops[NextIntervention] = "failed")
      BY <1>3 DEF ExecuteAccepted
    <2>3. OpsGoOn /\ (r = "failed" => ops'[NextIntervention] = "failed")
      BY <1>1, <1>2, <2>1, <2>2 DEF OpsGoOn, Finished
    <2> QED  BY <1>1, <2>2, <2>3, RegistersBacked
  <1>4. CASE ExecuteFailedAtOnce
    <2>1. OpsGoOn /\ ops'[NextIntervention] = "failed"
      BY <1>1, <1>2, <1>4 DEF ExecuteFailedAtOnce, OpsGoOn, Finished
    <2> QED  BY <1>1, <1>4, <2>1, RegistersBacked DEF ExecuteFailedAtOnce
  <1>5. CASE ExecuteLost
    <2>1. PICK o \in {"running", ops[NextIntervention]} :
            /\ ops' = [ops EXCEPT ![NextIntervention] = o]
            /\ ops[NextIntervention] # "none" => o = ops[NextIntervention]
      BY <1>5 DEF ExecuteLost
    <2>2. OpsGoOn
      BY <1>1, <1>2, <2>1 DEF OpsGoOn, Finished
    <2> QED  BY <1>1, <1>5, <2>2, RegistersBacked DEF ExecuteLost
  <1> QED  BY <1>3, <1>4, <1>5

LEMMA AppendBacked ==
  ASSUME IInv, EvInv, NEW e \in Log!Entry, Backed(e, ops), ledger' = Append(ledger, e),
         UNCHANGED ops
  PROVE  LedgerBacked'
  <1>1. ledger \in Logs
    BY DEF IInv, WellKept
  <1>2. /\ Len(ledger') = Len(ledger) + 1 /\ ledger' \in Logs /\ Len(ledger) \in Nat
        /\ \A n \in 1..Len(ledger) : ledger'[n] = ledger[n]
        /\ ledger'[Len(ledger) + 1] = e
    BY <1>1 DEF Logs
  <1>3. ASSUME NEW n \in DOMAIN ledger'  PROVE Backed(ledger'[n], ops)
    <2>1. n \in 1..Len(ledger) \/ n = Len(ledger) + 1
      BY <1>2, <1>3 DEF Logs
    <2>2. n \in 1..Len(ledger) => Backed(ledger[n], ops)
      BY <1>1 DEF EvInv, LedgerBacked, Logs
    <2> QED  BY <1>2, <2>1, <2>2
  <1> QED  BY <1>3 DEF LedgerBacked

LEMMA AppendEntryBacked ==
  ASSUME IInv, EvInv, AppendEntry
  PROVE  EvInv'
  <1>1. pc = "append" /\ UNCHANGED <<tail, ops>>
    BY DEF AppendEntry
  <1>2. PICK e \in Log!Entry : entry = <<e>>
    BY <1>1 DEF IInv, EntryOK
  <1>3. /\ ledger' = Append(ledger, e)
        /\ pc' \in {"unconfirmed", "persist", "record"}
        /\ pc' = "unconfirmed" <=> e.kind = "start" /\ reply # "accepted"
        /\ pc' = "unconfirmed" => reply' = reply
    <2>1. {entry[k] : k \in DOMAIN entry} = {e}
      BY <1>2
    <2>2. e.kind \in {"start", "terminal"}
      BY EntryFields
    <2> QED  BY <2>1, <2>2 DEF AppendEntry
  <1>4. entry[1] = e
    BY <1>2
  <1>5. Backed(e, ops) /\ (e.kind = "start" => reply = "accepted" \/ FailedReply(e.id))
    BY <1>1, <1>4 DEF EvInv, EntryBacked
  <1>6. LedgerBacked'
    BY <1>1, <1>3, <1>5, AppendBacked
  <1>7. ledger'[Len(ledger')] = e
    BY <1>3, Appended DEF IInv, WellKept, Logs
  <1>8. ReplyKept'
    BY <1>1, <1>3, <1>5, <1>7 DEF ReplyKept, FailedReply
  <1>9. EntryBacked' /\ TailBacked'
    BY <1>1, <1>3 DEF IInv, TailOK, EntryBacked, TailBacked
  <1> QED  BY <1>6, <1>8, <1>9 DEF EvInv

LEMMA CrashBacked ==
  ASSUME IInv, EvInv, Crash
  PROVE  EvInv'
  <1>1. pc' = "down" /\ UNCHANGED <<ledger, ops>>
    BY DEF Crash
  <1>2. LedgerBacked'
    BY <1>1, LedgerStays DEF OpsGoOn
  <1>3. TailBacked'
    <2> SUFFICES ASSUME tail' # <<>>  PROVE Backed(tail'[1].entry, ops)
      BY <1>1 DEF TailBacked
    <2>1. pc = "append" /\ tail' \in Lines(entry)
      BY DEF Crash
    <2>2. PICK e \in Log!Entry : entry = <<e>>
      BY <2>1 DEF IInv, EntryOK
    <2>3. \A k \in DOMAIN entry : entry[k] = e
      BY <2>2
    <2>4. PICK w \in BOOLEAN : tail' = <<[entry |-> e, whole |-> w]>>
      BY <2>1, <2>3 DEF Lines
    <2>5. tail'[1].entry = e /\ entry[1] = e
      BY <2>2, <2>4
    <2> QED  BY <2>1, <2>5 DEF EvInv, EntryBacked
  <1> QED  BY <1>1, <1>2, <1>3 DEF EvInv, EntryBacked, ReplyKept

LEMMA RelaunchBacked ==
  ASSUME IInv, EvInv, Relaunch
  PROVE  EvInv'
  <1>1. /\ ledger' = Repaired /\ tail' = <<>> /\ UNCHANGED ops
        /\ pc' \in {"top", "unrecoverable"}
    BY DEF Relaunch, LaunchAgain, LaunchFails
  <1>2. LedgerBacked'
    <2>1. CASE tail # <<>> /\ tail[1].whole
      <3>1. PICK e \in Log!Entry, w \in BOOLEAN : tail = <<[entry |-> e, whole |-> w]>>
        BY <2>1 DEF IInv, TypeOK
      <3>2. tail[1].entry = e
        BY <3>1
      <3> QED  BY <1>1, <2>1, <3>2, AppendBacked DEF Repaired, EvInv, TailBacked
    <2>2. CASE ~(tail # <<>> /\ tail[1].whole)
      BY <1>1, <2>2, LedgerStays DEF Repaired, OpsGoOn
    <2> QED  BY <2>1, <2>2
  <1> QED  BY <1>1, <1>2 DEF EvInv, EntryBacked, TailBacked, ReplyKept

LEMMA NextBacked ==
  ASSUME IInv, EvInv, [Next]_vars
  PROVE  EvInv'
  <1>1. CASE Loop \/ Plan
    BY <1>1, LoopIsQuiet, PlanIsQuiet, QuietKeeps
  <1>2. CASE Execute
    BY <1>2, ExecuteIsQuiet, QuietKeeps, StartsBacked, MergesKeep DEF Execute
  <1>3. CASE Absorb
    BY <1>3, AbsorbIsQuiet, QuietKeeps, MergesKeep DEF Absorb
  <1>4. CASE \/ Record \/ Persist \/ TimeRunsOut \/ Control \/ UNCHANGED vars
             \/ \E i \in Interventions : OpFinishes(i)
    BY <1>4, OthersAreQuiet, QuietKeeps
  <1> QED  BY <1>1, <1>2, <1>3, <1>4, AppendEntryBacked, CrashBacked,
     RelaunchBacked DEF Next, Thread

(* The invariant gives the property.                                         *)
LEMMA RunningIsKnown ==
  ASSUME IInv, EvInv, NEW i \in Interventions, Runs(i)
  PROVE  i \in Log!Unanswered(ledger) \/ i = NextIntervention \/ GaveUp(i)
  <1> SUFFICES ASSUME i \notin Log!Unanswered(ledger), i # NextIntervention  PROVE GaveUp(i)
    OBVIOUS
  <1>1. i <= NextIntervention
    BY DEF Runs, IInv, OpsOK
  <1>2. /\ ledger \in Logs /\ Log!Started(ledger) = 1..Count(ledger)
        /\ Count(ledger) \in Nat /\ NextIntervention = Count(ledger) + 1
    BY CountType DEF IInv, WellKept, NextIntervention, Count
  <1>3. i \in Log!Started(ledger)
    BY <1>1, <1>2, ControllerAssumption DEF Interventions
  <1>4. PICK n \in DOMAIN ledger : ledger[n].kind = "terminal" /\ ledger[n].id = i
    BY <1>3 DEF Log!Unanswered, Log!Answered
  <1>5. ledger[n] \in Log!Entry /\ Backed(ledger[n], ops)
    BY <1>2, EntryAt DEF EvInv, LedgerBacked
  <1>6. PICK j \in Interventions, o \in Log!Outcomes : ledger[n] = Log!TerminalEntry(j, o)
    BY <1>4, <1>5 DEF Log!Entry, Log!StartEntry
  <1>7. j = i /\ ledger[n].outcome = o
    BY <1>4, <1>6 DEF Log!TerminalEntry
  <1>8. o = "indeterminate"
    BY <1>4, <1>5, <1>7 DEF Backed, Runs, Finished, Log!Outcomes
  <1> QED  BY <1>6, <1>7, <1>8 DEF GaveUp

LEMMA IncumbentBacked ==
  ASSUME IInv, EvInv, Log!Incumbent(ledger) # 0
  PROVE  ops[Log!Incumbent(ledger)] = "succeeded"
  <1>1. ledger \in Logs /\ Log!Promoted(ledger) # {}
    BY DEF IInv, WellKept, Log!Incumbent
  <1>2. PICK n \in Log!Promoted(ledger) : Log!Incumbent(ledger) = ledger[n].id
    BY <1>1, LastPromoted
  <1> QED  BY <1>2 DEF Log!Promoted, EvInv, LedgerBacked, Backed

(* The ledger and ECC agree over every crash, torn line, lost answer and       *)
(* relaunch: no outcome is recorded that ECC has not reached, no candidate     *)
(* becomes the incumbent that has not succeeded, and what ECC still runs is    *)
(* accounted for (_complete, _next_intervention_id in controller_execution.py). *)
THEOREM LedgerTellsOfECC == Spec => []OutcomesAreProven
  <1>1. Init => IInv /\ EvInv
    <2>1. Init => EvInv
      BY DEF Init, EvInv, LedgerBacked, EntryBacked, TailBacked, ReplyKept
    <2> QED  BY <2>1, InitIInv
  <1>2. IInv /\ EvInv /\ [Next]_vars => (IInv /\ EvInv)'
    BY NextKeeps, NextBacked
  <1>3. IInv /\ EvInv => OutcomesAreProven
    BY RunningIsKnown, IncumbentBacked DEF OutcomesAreProven, EvInv, LedgerBacked
  <1> QED  BY <1>1, <1>2, <1>3, PTL DEF Spec

-----------------------------------------------------------------------------
(* What a candidate is started from *)

(* A candidate is started only from an approved proposal, which was made against *)
(* the incumbent that is current then and is used up by the start: outcomes that *)
(* are absorbed between the decision and the start, a pause or a relaunch do not *)
(* let a proposal for an older incumbent through.                                *)
IsStart(entries) == entries # <<>> /\ entries[1].kind = "start"
StartsAreApproved ==
  [][entry # entry' /\ IsStart(entry') =>
       /\ ctl.state = "awaiting" /\ ctl.proposal = {ctl.incumbent}
       /\ ctl'.proposal = {} /\ ~Exhausted(ctl)]_vars

(* A state that waits for a candidate to be started has one to be started, also  *)
(* when it is recovered; where one is dispatched the state waits for it, so that *)
(* a stop can take it back, and what is cancelled is in flight.                  *)
Waits(c) == c.state = "awaiting" => c.proposal # {}
Single(c) == \A a, b \in c.proposal : a = b
Dispatching == {"dispatch", "execute"}
(* A start that ECC has not accepted is completed before anything else.          *)
InDoubt == \/ pc = "unconfirmed"
           \/ pc = "append" /\ IsStart(entry) /\ reply # "accepted"
ProposalsAreKept ==
  /\ Alive /\ ~InDoubt => Waits(ctl)
  /\ pc \in Dispatching => ctl.state = "awaiting"
  /\ pc = "cancelling" => ~Idle

(* The strengthening: so is the state that is snapshot, and the one a relaunch   *)
(* recovers from it.                                                            *)
Fine(c) == Waits(c) /\ Single(c)
AtDispatch == pc \in Dispatching \/ (pc = "persist" /\ next \in Dispatching)
ApInv ==
  /\ Alive => Single(ctl) /\ (Waits(ctl) \/ InDoubt)
  /\ Fine(snap.ctl)
  /\ AtDispatch => ctl.state = "awaiting"
  /\ pc = "cancelling" => ~Idle
  /\ next # "cancelling"

Plain == pc \notin {"append", "unconfirmed"}

LEMMA NowFine ==
  ASSUME ApInv, Alive, Plain
  PROVE  Fine(ctl) /\ ~InDoubt
  BY DEF ApInv, Plain, InDoubt, Fine

(* A step after which a plain place has what it needs.                          *)
PlainStep ==
  /\ Plain' /\ Fine(snap'.ctl) /\ next' # "cancelling"
  /\ Alive' => Fine(ctl')
  /\ AtDispatch' => ctl'.state = "awaiting"
  /\ pc' = "cancelling" => ctl'.pending # {}

LEMMA PlainKeeps ==
  ASSUME PlainStep
  PROVE  ApInv'
  BY DEF PlainStep, ApInv, Plain, Fine, Idle

(* The thread moves on and the controller stays what it is.                     *)
LEMMA MovesOn ==
  ASSUME IInv, ApInv, Alive, Plain, UNCHANGED <<ctl, snap, next>>,
         pc' \notin {"append", "unconfirmed", "persist", "cancelling"},
         pc' \in Dispatching => ctl.state = "awaiting"
  PROVE  ApInv'
  <1>1. Fine(ctl)
    BY NowFine
  <1> QED  BY <1>1, PlainKeeps DEF PlainStep, Plain, ApInv, AtDispatch

(* The controller becomes c, which is persisted.                                *)
LEMMA PersistsFine ==
  ASSUME IInv, ApInv, UNCHANGED snap, pc' = "persist", next' # "cancelling", Fine(ctl'),
         next' \in Dispatching => ctl'.state = "awaiting"
  PROVE  ApInv'
  BY PlainKeeps DEF PlainStep, Plain, ApInv, AtDispatch, Dispatching

LEMMA ChangesFine ==
  ASSUME NEW c \in Controller, Fine(c), NEW st \in States \ {"awaiting"}, NEW k \in Nat,
         NEW n \in 0..PlanLimit
  PROVE  /\ Fine([c EXCEPT !.state = st])
         /\ Fine([c EXCEPT !.proposal = {}, !.state = st])
         /\ Fine([c EXCEPT !.state = st, !.proposal = {}])
         /\ Fine([c EXCEPT !.proposal = {}, !.idle = k, !.state = st])
         /\ Fine([c EXCEPT !.state = st, !.calls = n])
         /\ Fine([c EXCEPT !.calls = n])
  BY DEF Fine, Waits, Single, Controller, States

LEMMA LoopFine ==
  ASSUME IInv, ApInv, Loop
  PROVE  ApInv'
  <1>1. ctl \in Controller
    BY DEF IInv, TypeOK
  <1>2. CASE EndStopped
    <2>1. Fine(ctl)
      BY <1>2, NowFine DEF EndStopped, Alive, Plain
    <2>2. Fine(ctl')
      BY <1>1, <1>2, <2>1 DEF EndStopped, Fine, Waits, Single, Controller
    <2> QED  BY <1>2, <2>2, PersistsFine DEF EndStopped, disk, Dispatching
  <1>3. CASE \/ EndDrained \/ EndDecided \/ EndQuarantined \/ TurnRefused
             \/ StartTurn \/ AfterTurn
    <2>1. /\ pc \in {"top", "after"} /\ pc' \in {"ended", "fill", "top"}
          /\ UNCHANGED <<ctl, snap, next>>
      BY <1>3 DEF EndDrained, EndDecided, EndQuarantined, TurnRefused, StartTurn,
         TurnBegins,
         AfterTurn, Raises, Ends, Goes, disk
    <2> QED  BY <2>1, MovesOn DEF Alive, Plain, Dispatching
  <1> QED  BY <1>2, <1>3 DEF Loop

LEMMA RestingIs == Resting(ctl) \in {"planning", "executing"}
  BY DEF Resting

LEMMA PlanFine ==
  ASSUME IInv, ApInv, Plan
  PROVE  ApInv'
  <1>1. ctl \in Controller
    BY DEF IInv, TypeOK
  <1>2. Alive /\ Plain /\ pc \in {"top", "fill", "ask", "askRepair", "repair"}
    BY DEF Plan, FillEnds, FillRetries, Filling, PlanExhausted, PlanBegins, TurnRaises,
       TurnBegins, Asking, PlannerProposes, PlannerDecides, NothingToPropose, PlannerDefers,
       AnswerUnreadable, RepairBegins, Alive, Plain
  <1>3. Fine(ctl)
    BY <1>2, NowFine
  <1>4. CASE FillEnds \/ FillRetries \/ TurnRaises \/ (PlanExhausted /\ ~Idle)
    <2>1. /\ pc' \in {"settle", "execute", "ended"} /\ UNCHANGED <<ctl, snap, next>>
          /\ pc' = "execute" => ctl.state = "awaiting"
      BY <1>4 DEF FillEnds, FillRetries, TurnRaises, PlanExhausted, Raises, Ends, Goes, disk
    <2> QED  BY <1>2, <2>1, MovesOn DEF Dispatching
  <1>5. CASE PlanExhausted /\ Idle
    <2>1. ctl' = [ctl EXCEPT !.state = "stopped", !.proposal = {}]
      BY <1>5 DEF PlanExhausted, Persists, PersistsThen
    <2>2. Fine(ctl')
      BY <1>1, <1>3, <2>1 DEF Fine, Waits, Single, Controller
    <2> QED  BY <1>5, <2>2, PersistsFine DEF PlanExhausted, Persists, PersistsThen, disk,
       Dispatching
  <1>6. CASE PlanBegins
    <2>1. /\ ctl' = [ctl EXCEPT !.state = IF Idle THEN "planning" ELSE @, !.calls = @ + 1]
          /\ ctl.state # "awaiting"
      BY <1>6 DEF PlanBegins, Audits, PersistsThen
    <2>2. ctl'.state # "awaiting" /\ ctl'.proposal = ctl.proposal
      BY <1>1, <2>1 DEF Controller
    <2>3. Fine(ctl')
      BY <1>3, <2>2 DEF Fine, Waits, Single
    <2> QED  BY <1>6, <2>3, PersistsFine DEF PlanBegins, Audits, PersistsThen, Dispatching
  <1>7. CASE PlannerProposes
    <2>1. ctl' = [ctl EXCEPT !.proposal = {ctl.incumbent}, !.idle = 0, !.state = "awaiting"]
      BY <1>7 DEF PlannerProposes, Audits, PersistsThen
    <2>2. ctl'.state = "awaiting" /\ ctl'.proposal = {ctl.incumbent}
      BY <1>1, <2>1 DEF Controller
    <2>3. Fine(ctl')
      BY <2>2 DEF Fine, Waits, Single
    <2> QED  BY <1>7, <2>2, <2>3, PersistsFine DEF PlannerProposes, Audits, PersistsThen
  <1>8. CASE PlannerDecides \/ NothingToPropose
    <2>1. \E st \in {"escalated", "stopped"} :
            \/ ctl' = [ctl EXCEPT !.state = st]
            \/ ctl' = [ctl EXCEPT !.state = st, !.proposal = {}]
      BY <1>8 DEF PlannerDecides, NothingToPropose, Audits, PersistsThen
    <2>2. Fine(ctl')
      BY <1>1, <1>3, <2>1 DEF Fine, Waits, Single, Controller
    <2> QED  BY <1>8, <2>2, PersistsFine
        DEF PlannerDecides, NothingToPropose, Audits, PersistsThen, Dispatching
  <1>9. CASE PlannerDefers
    <2>1. PICK k \in {0, ctl.idle + 1}, st \in {"planning", "executing", "escalated"} :
            ctl' = [ctl EXCEPT !.proposal = {}, !.idle = k, !.state = st]
      BY <1>9, RestingIs DEF PlannerDefers, Audits, PersistsThen
    <2>2. ctl'.state = st /\ ctl'.proposal = {}
      BY <1>1, <2>1 DEF Controller
    <2>3. Fine(ctl')
      BY <2>2 DEF Fine, Waits, Single
    <2> QED  BY <1>9, <2>3, PersistsFine DEF PlannerDefers, Audits, PersistsThen,
       Dispatching
  <1>10. CASE AnswerUnreadable \/ RepairBegins
    <2>1. CASE GivesUpPlanning
      <3>1. ctl' = [ctl EXCEPT !.proposal = {}, !.idle = @ + 1, !.state = "escalated"]
        BY <2>1 DEF GivesUpPlanning, Audits, PersistsThen
      <3>2. ctl'.state = "escalated" /\ ctl'.proposal = {}
        BY <1>1, <3>1 DEF Controller
      <3>3. Fine(ctl')
        BY <3>2 DEF Fine, Waits, Single
      <3> QED  BY <2>1, <3>3, PersistsFine DEF GivesUpPlanning, Audits, PersistsThen,
         Dispatching
    <2>2. CASE Audits(ctl, "repair")
      BY <1>3, <2>2, PersistsFine DEF Audits, PersistsThen, Dispatching
    <2>3. CASE Audits([ctl EXCEPT !.calls = @ + 1], "askRepair")
      <3>1. ctl' = [ctl EXCEPT !.calls = @ + 1]
        BY <2>3 DEF Audits, PersistsThen
      <3>2. ctl'.state = ctl.state /\ ctl'.proposal = ctl.proposal
        BY <1>1, <3>1 DEF Controller
      <3>3. Fine(ctl')
        BY <1>3, <3>2 DEF Fine, Waits, Single
      <3> QED  BY <2>3, <3>3, PersistsFine DEF Audits, PersistsThen, Dispatching
    <2> QED  BY <1>10, <2>1, <2>2, <2>3 DEF AnswerUnreadable, RepairBegins
  <1> QED  BY <1>4, <1>5, <1>6, <1>7, <1>8, <1>9, <1>10 DEF Plan

LEMMA ExecuteFine ==
  ASSUME IInv, ApInv,
         StopBeforeExecution \/ Dispatch \/ ExecuteExhausted \/ ExecuteStale \/ ExecuteBusy
  PROVE  ApInv'
  <1>1. ctl \in Controller
    BY DEF IInv, TypeOK
  <1>2. Alive /\ Plain
    BY DEF StopBeforeExecution, Dispatch, ExecuteExhausted, ExecuteStale, ExecuteBusy,
       Executing,
       Alive, Plain
  <1>3. Fine(ctl)
    BY <1>2, NowFine
  <1>4. CASE Dispatch
    <2>1. /\ pc = "dispatch" /\ pc' = "execute" /\ UNCHANGED <<ctl, snap, next>>
      BY <1>4 DEF Dispatch, Goes, disk
    <2>2. ctl.state = "awaiting"
      BY <2>1 DEF ApInv, AtDispatch, Dispatching
    <2> QED  BY <1>2, <2>1, <2>2, MovesOn
  <1>5. CASE StopBeforeExecution \/ ExecuteExhausted \/ ExecuteStale
    <2>1. PICK st \in {"stopped", "executing", "planning"}, p \in {"settle", "fill"} :
            /\ Persists([ctl EXCEPT !.proposal = {}, !.state = st], p)
      BY <1>5, RestingIs DEF StopBeforeExecution, ExecuteExhausted, ExecuteStale, FillAgain
    <2>2. ctl'.state = st /\ ctl'.proposal = {}
      BY <1>1, <2>1 DEF Controller, Persists, PersistsThen
    <2>3. Fine(ctl')
      BY <2>2 DEF Fine, Waits, Single
    <2> QED  BY <2>1, <2>3, PersistsFine DEF Persists, PersistsThen, disk, Dispatching
  <1>6. CASE ExecuteBusy
    <2>1. PICK st \in {"planning", "awaiting"} : Persists([ctl EXCEPT !.state = st], "settle")
      BY <1>6 DEF ExecuteBusy
    <2>2. ctl.proposal # {}
      BY <1>6 DEF ExecuteBusy, Executing, Stale
    <2>3. ctl'.state = st /\ ctl'.proposal = ctl.proposal
      BY <1>1, <2>1 DEF Controller, Persists, PersistsThen
    <2>4. Fine(ctl')
      BY <1>3, <2>2, <2>3 DEF Fine, Waits, Single
    <2> QED  BY <2>1, <2>4, PersistsFine DEF Persists, PersistsThen, disk, Dispatching
  <1> QED  BY <1>4, <1>5, <1>6

LEMMA AbsorbFine ==
  ASSUME IInv, ApInv,
         Settle \/ AbsorbNothing \/ RequestCancels \/ \E i \in Interventions : EvidenceMissing(i)
  PROVE  ApInv'
  <1>1. Alive /\ Plain /\ UNCHANGED <<ctl, snap, next>>
    BY DEF Settle, AbsorbNothing, RequestCancels, EvidenceMissing, Waiting, Raises, Ends,
       Goes,
       disk, Alive, Plain
  <1>2. CASE RequestCancels
    <2>1. Fine(ctl)
      BY <1>1, NowFine
    <2>2. pc' = "cancelling" /\ ctl.pending # {}
      BY <1>2 DEF RequestCancels, Idle
    <2> QED  BY <1>1, <2>1, <2>2, PlainKeeps DEF PlainStep, Plain, ApInv, AtDispatch,
       Dispatching
  <1>3. CASE Settle \/ AbsorbNothing \/ \E i \in Interventions : EvidenceMissing(i)
    <2>1. pc' \in {"absorb", "after", "ended"}
      BY <1>3 DEF Settle, AbsorbNothing, EvidenceMissing, Raises, Ends, Goes
    <2> QED  BY <1>1, <2>1, MovesOn DEF Dispatching
  <1> QED  BY <1>2, <1>3

(* Steps of the user, the clock and ECC.                                        *)
LEMMA OthersFine ==
  ASSUME IInv, ApInv, \/ TimeRunsOut \/ Control \/ UNCHANGED vars
                      \/ \E i \in Interventions : OpFinishes(i)
  PROVE  ApInv'
  <1>1. UNCHANGED <<pc, next, entry, reply, snap>>
    BY DEF TimeRunsOut, Control, Pause, Resume, RequestStop, PrepareShutdown,
       CancelShutdown,
       Sets, OpFinishes, vars, thread, disk
  <1>2. /\ ctl'.state = ctl.state /\ ctl'.proposal = ctl.proposal
        /\ ctl'.pending = ctl.pending
    <2>1. CASE TimeRunsOut
      BY <2>1 DEF TimeRunsOut, IInv, TypeOK, Controller
    <2>2. CASE Control \/ UNCHANGED vars \/ \E i \in Interventions : OpFinishes(i)
      BY <2>2 DEF Control, Pause, Resume, RequestStop, PrepareShutdown, CancelShutdown,
         Sets, OpFinishes, vars, thread
    <2> QED  BY <2>1, <2>2
  <1> QED  BY <1>1, <1>2 DEF ApInv, Alive, InDoubt, IsStart, Single, Waits, Fine,
     AtDispatch, Idle

LEMMA RecordFine ==
  ASSUME IInv, ApInv, Record
  PROVE  ApInv'
  <1>1. /\ pc = "record" /\ pc' \in {"persist", "ended"} /\ UNCHANGED <<ctl, snap, next>>
    BY DEF Record, RecordCase, RecordingRaises, Ends, disk
  <1>2. Fine(ctl)
    BY <1>1, NowFine DEF Alive, Plain
  <1>3. next \notin Dispatching
    BY <1>1 DEF IInv, RoomOK, Starting, Dispatching
  <1> QED  BY <1>1, <1>2, <1>3, PlainKeeps DEF PlainStep, Plain, ApInv, AtDispatch,
     Dispatching

LEMMA PersistFine ==
  ASSUME IInv, ApInv, Persist
  PROVE  ApInv'
  <1>1. /\ pc = "persist" /\ pc' = next /\ next' = "top" /\ ctl' = ctl /\ snap'.ctl = ctl
    BY DEF Persist
  <1>2. Fine(ctl)
    BY <1>1, NowFine DEF Alive, Plain
  <1>3. next \notin {"append", "unconfirmed"} /\ next # "cancelling"
    BY DEF IInv, RoomOK, ApInv
  <1>4. next \in Dispatching => ctl.state = "awaiting"
    BY <1>1 DEF ApInv, AtDispatch
  <1> QED  BY <1>1, <1>2, <1>3, <1>4, PlainKeeps DEF PlainStep, Plain, AtDispatch,
     Dispatching

-----------------------------------------------------------------------------
(* Entries *)

LEMMA MergedFine ==
  ASSUME NEW c \in Controller, Single(c), NEW i \in Interventions, NEW o \in Outcomes
  PROVE  Fine(Merged(c, i, o))
  <1> DEFINE d == [c EXCEPT !.pending = @ \ {i},
     !.incumbent = IF o = "improved" THEN i ELSE @]
  <1>1. d \in Controller /\ d.proposal = c.proposal
    BY DEF Controller
  <1>2. \E st \in States : /\ Merged(c, i, o) = [d EXCEPT !.state = st]
                           /\ st = "awaiting" => d.proposal # {}
    BY DEF Merged, States
  <1> HIDE DEF d
  <1>3. PICK st \in States : /\ Merged(c, i, o) = [d EXCEPT !.state = st]
                             /\ st = "awaiting" => d.proposal # {}
    BY <1>2
  <1>4. Merged(c, i, o).state = st /\ Merged(c, i, o).proposal = c.proposal
    BY <1>1, <1>3 DEF Controller
  <1> QED  BY <1>1, <1>3, <1>4 DEF Fine, Waits, Single

LEMMA MergeFine ==
  ASSUME IInv, ApInv, Alive, NEW i \in Interventions, NEW o \in Outcomes,
         NEW p \in {"after", "fill", "settle"}, Merge(i, o, p)
  PROVE  ApInv'
  <1>1. Fine(ctl')
    BY MergedFine DEF Merge, IInv, TypeOK, ApInv
  <1>2. pc' = "append" /\ next' = p /\ UNCHANGED snap
    BY DEF Merge, disk
  <1> QED  BY <1>1, <1>2 DEF ApInv, Fine, AtDispatch, Dispatching

LEMMA MergesFine ==
  ASSUME IInv, ApInv,
         \/ Unconfirmed \/ WaitFails \/ GiveUp \/ \E i \in Interventions : Collect(i)
  PROVE  ApInv'
  <1>1. Alive
    BY DEF Unconfirmed, WaitFails, GiveUp, Collect, Waiting, Alive
  <1>2. CASE Unconfirmed
    <2> DEFINE i == ledger[Len(ledger)].id
               o == IF reply = "lost" THEN "indeterminate" ELSE "other"
               p == FillAgain(Merged(ctl, i, o))
    <2>1. pc = "unconfirmed" /\ Merge(i, o, p)
      BY <1>2 DEF Unconfirmed
    <2>2. i \in Interventions
      BY <2>1, SaidOf DEF IInv, UnconfirmedOK, WellKept
    <2>3. o \in Outcomes /\ p \in {"fill", "settle"}
      BY DEF Outcomes, FillAgain
    <2> HIDE DEF i, o, p
    <2> QED  BY <1>1, <2>1, <2>2, <2>3, MergeFine
  <1>3. CASE WaitFails \/ GiveUp
    <2>1. ~Idle /\ Merge(Oldest(ctl.pending), "indeterminate", "after")
      BY <1>3 DEF WaitFails, GiveUp
    <2>2. Oldest(ctl.pending) \in Interventions
      BY <2>1, OldestIsPending, FieldsOf DEF IInv, TypeOK
    <2>3. "indeterminate" \in Outcomes
      BY DEF Outcomes
    <2> QED  BY <1>1, <2>1, <2>2, <2>3, MergeFine
  <1>4. ASSUME NEW i \in Interventions, Collect(i)  PROVE ApInv'
    <2>1. \E o \in Outcomes : Merge(i, o, "after")
      BY <1>4 DEF Collect, Outcomes
    <2> QED  BY <1>1, <2>1, MergeFine
  <1> QED  BY <1>2, <1>3, <1>4

(* What a start is decided from, and what it leaves of it.                      *)
LEMMA RegistersFine ==
  ASSUME IInv, ApInv, Executing, NEW r \in {"accepted", "failed", "lost"},
         Registers(NextIntervention, r)
  PROVE  /\ ApInv' /\ ctl.state = "awaiting" /\ ctl.proposal = {ctl.incumbent}
         /\ ctl'.proposal = {} /\ ~Exhausted(ctl)
  <1>1. /\ pc = "execute" /\ ~Exhausted(ctl) /\ ctl.incumbent \in ctl.proposal
        /\ ctl \in Controller
    BY DEF Executing, Stale, IInv, TypeOK
  <1>2. ctl.state = "awaiting" /\ Single(ctl)
    BY <1>1 DEF ApInv, AtDispatch, Dispatching, Alive
  <1>3. ctl.proposal = {ctl.incumbent}
    BY <1>1, <1>2 DEF Single
  <1>4. /\ pc' = "append" /\ reply' = r /\ next' \in {"fill", "settle"} /\ UNCHANGED snap
        /\ entry' = <<Log!StartEntry(NextIntervention)>>
    BY DEF Registers, FillAgain, disk
  <1>5. /\ ctl'.proposal = {}
        /\ r = "accepted" => ctl'.state = "executing"
    BY <1>1 DEF Registers, Controller
  <1>6. IsStart(entry')
    <2>1. entry'[1] = Log!StartEntry(NextIntervention) /\ entry' # <<>>
      BY <1>4
    <2> QED  BY <2>1 DEF IsStart, Log!StartEntry
  <1>7. Single(ctl') /\ (Waits(ctl') \/ InDoubt')
    BY <1>4, <1>5, <1>6 DEF Single, Waits, InDoubt
  <1>8. ApInv'
    BY <1>4, <1>7 DEF ApInv, AtDispatch, Dispatching
  <1> QED  BY <1>1, <1>2, <1>3, <1>5, <1>8

LEMMA StartsFine ==
  ASSUME IInv, ApInv, ExecuteAccepted \/ ExecuteFailedAtOnce \/ ExecuteLost
  PROVE  /\ ApInv' /\ ctl.state = "awaiting" /\ ctl.proposal = {ctl.incumbent}
         /\ ctl'.proposal = {} /\ ~Exhausted(ctl)
  <1>1. Executing /\ \E r \in {"accepted", "failed", "lost"} : Registers(NextIntervention, r)
    BY DEF ExecuteAccepted, ExecuteFailedAtOnce, ExecuteLost
  <1> QED  BY <1>1, RegistersFine

LEMMA AppendEntryFine ==
  ASSUME IInv, ApInv, AppendEntry
  PROVE  ApInv' /\ ~IsStart(entry')
  <1>1. pc = "append" /\ entry' = <<>> /\ UNCHANGED <<next, ctl, snap>>
    BY DEF AppendEntry
  <1>2. PICK e \in Log!Entry : entry = <<e>>
    BY <1>1 DEF IInv, EntryOK
  <1>3. /\ pc' \in {"unconfirmed", "persist", "record"}
        /\ pc' = "unconfirmed" <=> e.kind = "start" /\ reply # "accepted"
    <2>1. {entry[k] : k \in DOMAIN entry} = {e}
      BY <1>2
    <2>2. e.kind \in {"start", "terminal"}
      BY EntryFields
    <2> QED  BY <2>1, <2>2 DEF AppendEntry
  <1>4. IsStart(entry) <=> e.kind = "start"
    BY <1>2 DEF IsStart
  <1>5. Single(ctl') /\ (Waits(ctl') \/ InDoubt')
    BY <1>1, <1>3, <1>4 DEF ApInv, Alive, InDoubt, Single, Waits
  <1>6. next \notin Dispatching
    BY <1>1 DEF IInv, RoomOK, Starting, Dispatching
  <1>7. ~AtDispatch' /\ pc' # "cancelling" /\ next' # "cancelling" /\ Fine(snap'.ctl)
    BY <1>1, <1>3, <1>6 DEF AtDispatch, Dispatching, ApInv
  <1>8. ApInv'
    BY <1>5, <1>7 DEF ApInv
  <1> QED  BY <1>1, <1>8 DEF IsStart

LEMMA CrashFine ==
  ASSUME IInv, ApInv, Crash
  PROVE  ApInv'
  BY DEF Crash, ApInv, Alive, AtDispatch, Dispatching

(* A recovered state waits for a candidate only if the snapshot did.            *)
LEMMA RecoveredFine ==
  ASSUME IInv, ApInv, Recoverable
  PROVE  Fine(Recovered)
  <1>1. snap.ctl \in Controller /\ Fine(snap.ctl) /\ Reconciled \in Controller
    BY ReconciledSays DEF IInv, TypeOK, ApInv
  <1>2. /\ Reconciled.proposal = snap.ctl.proposal
        /\ Reconciled.state = "awaiting" => snap.ctl.state = "awaiting"
    <2> DEFINE inc == IF Log!Promoted(Surplus) = {} THEN snap.ctl.incumbent
                      ELSE Log!Incumbent(Surplus)
               pen == snap.ctl.pending \ Log!Answered(Surplus)
               d == [snap.ctl EXCEPT !.pending = pen, !.incumbent = inc]
    <2>1. d.proposal = snap.ctl.proposal /\ d.state = snap.ctl.state
      BY <1>1 DEF Controller
    <2>2. CASE Surplus = <<>>
      BY <2>2 DEF Reconciled
    <2>3. CASE Surplus # <<>>
      <3>1. \E st \in {"stopped", "planning", d.state} : Reconciled = [d EXCEPT !.state = st]
        BY <2>3 DEF Reconciled
      <3>2. d = [d EXCEPT !.state = d.state] /\ "state" \in DOMAIN d /\ "proposal" \in DOMAIN d
        BY <1>1 DEF Controller
      <3> HIDE DEF d
      <3>3. PICK st \in {"stopped", "planning", d.state} : Reconciled = [d EXCEPT !.state = st]
        BY <3>1
      <3>4. Reconciled.state = st /\ Reconciled.proposal = d.proposal
        BY <3>2, <3>3
      <3> QED  BY <2>1, <3>3, <3>4
    <2> QED  BY <2>2, <2>3
  <1>3. \E st \in {"executing", "planning", Reconciled.state} :
          Recovered = [Reconciled EXCEPT !.state = st]
    BY DEF Recovered
  <1>4. PICK st \in {"executing", "planning", Reconciled.state} :
          Recovered = [Reconciled EXCEPT !.state = st]
    BY <1>3
  <1>5. Recovered.state = st /\ Recovered.proposal = snap.ctl.proposal
    BY <1>1, <1>2, <1>4 DEF Controller
  <1> QED  BY <1>1, <1>2, <1>4, <1>5 DEF Fine, Waits, Single

LEMMA RelaunchFine ==
  ASSUME IInv, ApInv, Relaunch
  PROVE  ApInv'
  <1>1. CASE LaunchAgain
    <2>1. Fine(Recovered)
      BY <1>1, RecoveredFine DEF LaunchAgain
    <2>2. /\ pc' = "top" /\ ctl' = Recovered /\ snap'.ctl = Recovered /\ next' = next
      BY <1>1 DEF LaunchAgain
    <2> QED  BY <2>1, <2>2, PlainKeeps DEF PlainStep, Plain, ApInv, AtDispatch, Dispatching
  <1>2. CASE LaunchFails
    BY <1>2 DEF LaunchFails, ApInv, Alive, AtDispatch, Dispatching
  <1> QED  BY <1>1, <1>2 DEF Relaunch

(* Every step but one that starts a candidate.                                  *)
Begins == ExecuteAccepted \/ ExecuteFailedAtOnce \/ ExecuteLost

LEMMA NextFine ==
  ASSUME IInv, ApInv, [Next]_vars
  PROVE  ApInv'
  <1>1. CASE Execute
    BY <1>1, ExecuteFine, StartsFine, MergesFine DEF Execute
  <1>2. CASE Absorb
    BY <1>2, AbsorbFine, MergesFine DEF Absorb
  <1> QED  BY <1>1, <1>2, LoopFine, PlanFine, RecordFine, PersistFine, AppendEntryFine,
     OthersFine,
      CrashFine, RelaunchFine DEF Next, Thread

LEMMA OnlyBeginsStarts ==
  ASSUME IInv, [Next]_vars, ~Begins, entry # entry'
  PROVE  ~IsStart(entry')
  <1>1. ~Quiet
    BY DEF Quiet
  <1>2. ~(Loop \/ Plan) /\ ~(\/ Record \/ Persist \/ TimeRunsOut \/ Control \/ UNCHANGED vars
                             \/ \E i \in Interventions : OpFinishes(i))
    BY <1>1, LoopIsQuiet, PlanIsQuiet, OthersAreQuiet
  <1>3. ASSUME NEW i, NEW o, NEW p, Merge(i, o, p)  PROVE ~IsStart(entry')
    <2>1. entry' = <<Log!TerminalEntry(i, o)>>
      BY <1>3 DEF Merge
    <2>2. entry'[1] = Log!TerminalEntry(i, o)
      BY <2>1
    <2>3. entry'[1].kind = "terminal"
      BY <2>2 DEF Log!TerminalEntry
    <2> QED  BY <2>3 DEF IsStart
  <1>4. CASE Execute
    BY <1>1, <1>3, <1>4, ExecuteIsQuiet DEF Execute, Begins, Unconfirmed
  <1>5. CASE Absorb
    BY <1>1, <1>3, <1>5, AbsorbIsQuiet DEF Absorb, WaitFails, GiveUp, Collect
  <1>6. CASE AppendEntry \/ Crash
    BY <1>6 DEF AppendEntry, Crash, IsStart
  <1>7. CASE Relaunch
    BY <1>7 DEF Relaunch, LaunchAgain, LaunchFails
  <1> QED  BY <1>2, <1>4, <1>5, <1>6, <1>7 DEF Next, Thread

LEMMA ApInductive == Spec => [](IInv /\ ApInv)
  <1>1. Init => ApInv
    BY DEF Init, ApInv, NewController, Single, Waits, Fine, AtDispatch, Dispatching
  <1> QED  BY <1>1, InitIInv, NextKeeps, NextFine, PTL DEF Spec

(* The states in which the episode waits for a candidate, dispatches one or     *)
(* cancels one are what their names say, over every crash and recovery           *)
(* (controller.py, controller_execution.py).                                     *)
THEOREM ProposalsStayKept == Spec => []ProposalsAreKept
  <1>1. IInv /\ ApInv => ProposalsAreKept
    BY DEF ApInv, ProposalsAreKept, AtDispatch
  <1> QED  BY <1>1, ApInductive, PTL

(* No candidate is started without an approved proposal against the current     *)
(* incumbent, and no controller starts two from one (execute in                 *)
(* controller_execution.py).                                                    *)
THEOREM OnlyApprovedStart == Spec => StartsAreApproved
  <1>1. IInv /\ ApInv /\ [Next]_vars =>
          [entry # entry' /\ IsStart(entry') =>
             /\ ctl.state = "awaiting" /\ ctl.proposal = {ctl.incumbent}
             /\ ctl'.proposal = {} /\ ~Exhausted(ctl)]_vars
    BY OnlyBeginsStarts, StartsFine DEF Begins
  <1> QED  BY <1>1, ApInductive, PTL DEF Spec, StartsAreApproved
=============================================================================
