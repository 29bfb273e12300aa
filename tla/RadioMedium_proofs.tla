------------------------- MODULE RadioMedium_proofs -------------------------
(***************************************************************************)
(* The RF medium for every set of emissions and receivers, every path loss  *)
(* and every schedule of polls: the inductive invariant MediumInv, and the  *)
(* properties of MCRadioMedium.cfg that follow from it.                     *)
(***************************************************************************)
EXTENDS RadioMedium, WellFoundedInduction, TLAPS

-----------------------------------------------------------------------------
(* Finite sets of integers *)

\* A nonempty set of naturals has a least element.
LEMMA LeastNatural ==
    ASSUME NEW S \in SUBSET Nat, S # {}
    PROVE  \E n \in S : \A m \in S : n <= m
  <1>1. PICK n \in S : \A m \in S : ~(<<m, n>> \in OpToRel(<, Nat))
    BY NatLessThanWellFounded, WFMin
  <1>2. \A m \in S : ~(m < n)
    BY <1>1 DEF OpToRel
  <1>3. QED
    BY <1>2

\* Among finitely many indices one has the greatest integer value: Max, as
\* strongest_interferer and energy_dbm_at use it, is defined.
LEMMA GreatestValue ==
    ASSUME NEW n \in Nat, NEW f \in [1..n -> Int], NEW C \in SUBSET (1..n), C # {}
    PROVE  \E i \in C : \A j \in C : f[i] >= f[j]
  <1> DEFINE Top(D) == \E i \in D : \A j \in D : f[i] >= f[j]
             Bad == {k \in Nat : \E D \in SUBSET (1..n) : D # {} /\ D \subseteq 1..k /\ ~Top(D)}
  <1>1. SUFFICES ASSUME Bad # {} PROVE FALSE
    <2>1. C \subseteq 1..n /\ C # {}
      OBVIOUS
    <2>2. ~Top(C) => n \in Bad
      BY <2>1
    <2>3. QED
      BY <2>2, <1>1
  <1>2. PICK k \in Bad : \A m \in Bad : k <= m
    BY <1>1, LeastNatural
  <1>3. PICK D \in SUBSET (1..n) : D # {} /\ D \subseteq 1..k /\ ~Top(D)
    BY <1>2
  <1>4. k \in Nat /\ k # 0
    <2>1. k \in Nat /\ 1..0 = {}
      BY <1>2
    <2>2. QED
      BY <1>3, <2>1
  <1>5. k - 1 \notin Bad /\ k - 1 \in Nat
    <2> HIDE DEF Bad
    <2>1. k - 1 \in Nat /\ ~(k <= k - 1)
      BY <1>4
    <2>2. QED
      BY <1>2, <2>1
  <1>6. D \ {k} \subseteq 1..(k - 1)
    BY <1>2, <1>3
  <1>7. k \in D
    <2>1. SUFFICES ASSUME k \notin D PROVE FALSE
      OBVIOUS
    <2>2. D \subseteq 1..(k - 1)
      BY <1>6, <2>1
    <2>3. QED
      BY <2>2, <1>5, <1>3
  <1>8. D \ {k} # {}
    <2>1. SUFFICES ASSUME D \ {k} = {} PROVE FALSE
      OBVIOUS
    <2>2. \A j \in D : j = k
      BY <2>1
    <2>3. f[k] \in Int
      BY <1>7
    <2>4. QED
      BY <2>2, <2>3, <1>7, <1>3
  <1>9. PICK i \in D \ {k} : \A j \in D \ {k} : f[i] >= f[j]
    <2>1. Top(D \ {k})
      BY <1>5, <1>6, <1>8
    <2>2. QED
      BY <2>1
  <1>10. \A j \in D : f[j] \in Int
    OBVIOUS
  <1>11. CASE f[i] >= f[k]
    BY <1>3, <1>9, <1>11, <1>10
  <1>12. CASE ~(f[i] >= f[k])
    <2>1. f[i] \in Int /\ f[k] \in Int
      BY <1>7, <1>9, <1>10
    <2>2. \A j \in D \ {k} : f[i] >= f[j] /\ f[j] \in Int
      BY <1>9, <1>10
    <2>3. \A j \in D : f[k] >= f[j]
      BY <2>1, <2>2, <1>12
    <2>4. QED
      BY <2>3, <1>7, <1>3
  <1>13. QED
    BY <1>11, <1>12

\* Max and Min are members of the sets they are taken from.
LEMMA MaxOfValues ==
    ASSUME NEW n \in Nat, NEW f \in [1..n -> Int], NEW C \in SUBSET (1..n), C # {}
    PROVE  Max({f[j] : j \in C}) \in {f[j] : j \in C}
  <1> DEFINE V == {f[j] : j \in C}
  <1>1. PICK i \in C : \A j \in C : f[i] >= f[j]
    BY GreatestValue
  <1>2. \E x \in V : \A y \in V : x >= y
    BY <1>1
  <1>3. QED
    BY <1>2 DEF Max

LEMMA MinOfNaturals ==
    ASSUME NEW S \in SUBSET Nat, S # {}
    PROVE  Min(S) \in S
  <1>1. \E x \in S : \A y \in S : x =< y
    BY LeastNatural
  <1>2. QED
    BY <1>1 DEF Min

-----------------------------------------------------------------------------
(* Interference *)

\* The intervals a..b and c..d, without their ends, share an instant, or the
\* second is an empty one strictly inside the first.
Meets(a, b, c, d) ==
    \/ (a..(b - 1)) \cap (c..(d - 1)) # {}
    \/ c..(d - 1) = {} /\ c \in (a + 1)..(b - 1)

\* intervals_overlap says the same, if the first interval is not empty.
LEMMA SharedInstant ==
    ASSUME NEW a \in Int, NEW b \in Int, NEW c \in Int, NEW d \in Int, a < b, c <= d
    PROVE  Meets(a, b, c, d) <=> a < d /\ c < b
  <1>1. ASSUME a < d, c < b
        PROVE  \/ (a..(b - 1)) \cap (c..(d - 1)) # {}
               \/ c..(d - 1) = {} /\ c \in (a + 1)..(b - 1)
    <2>1. CASE c = d
      BY <1>1, <2>1
    <2>2. CASE c # d /\ a <= c
      <3>1. c \in a..(b - 1) /\ c \in c..(d - 1)
        BY <1>1, <2>2
      <3>2. QED
        BY <3>1
    <2>3. CASE c # d /\ c < a
      <3>1. a \in a..(b - 1) /\ a \in c..(d - 1)
        BY <1>1, <2>3
      <3>2. QED
        BY <3>1
    <2>4. QED
      BY <2>1, <2>2, <2>3
  <1>2. ASSUME (a..(b - 1)) \cap (c..(d - 1)) # {}
        PROVE  a < d /\ c < b
    <2>1. PICK t : t \in a..(b - 1) /\ t \in c..(d - 1)
      BY <1>2
    <2>2. QED
      BY <2>1
  <1>3. ASSUME c..(d - 1) = {}, c \in (a + 1)..(b - 1)
        PROVE  a < d /\ c < b
    BY <1>3
  <1>4. QED
    BY <1>1, <1>2, <1>3 DEF Meets

\* TrueInterferers, stated with intervals.
LEMMA TrueByIntervals ==
    ASSUME MediumInv, NEW i \in DOMAIN aired, aired[i].start < aired[i].end,
           NEW j \in DOMAIN aired, j # i
    PROVE  j \in TrueInterferers(i) <=>
              /\ aired[i].spectrum \cap aired[j].spectrum # {}
              /\ aired[i].start < aired[j].end
              /\ aired[j].start < aired[i].end
  <1>1. /\ aired[i].start \in Int /\ aired[i].end \in Int
        /\ aired[j].start \in Int /\ aired[j].end \in Int
        /\ aired[j].start <= aired[j].end
    BY MediumAssumption DEF MediumInv, MediumTypeOK, ResolvedIsOver, MediumTime
  <1>2. QED
    BY <1>1, SharedInstant DEF TrueInterferers, Ticks, Meets

\* strongest_interferer names one of the interferers.
LEMMA StrongestIn ==
    ASSUME MediumInv, NEW C \in SUBSET DOMAIN aired, C # {}, NEW node \in NodeId
    PROVE  Strongest(C, node) \in C
  <1> DEFINE n == Len(aired)
             f == [j \in 1..n |-> Power(j, node)]
             top == Max({Power(j, node) : j \in C})
  <1>1. n \in Nat /\ DOMAIN aired = 1..n
    BY DEF MediumInv
  <1>2. f \in [1..n -> Int]
    <2>1. SUFFICES ASSUME NEW j \in 1..n PROVE Power(j, node) \in Int
      OBVIOUS
    <2>2. aired[j].power \in Int /\ aired[j].source \in NodeId
      <3>1. aired[j] \in AiredTransmission
        BY <1>1 DEF MediumInv
      <3>2. QED
        BY <3>1 DEF AiredTransmission
    <2>3. PathLoss[{aired[j].source, node}] \in Int
      BY <2>2, MediumAssumption
    <2>4. QED
      BY <2>2, <2>3 DEF Power, SaturatingSub
  <1>3. {f[j] : j \in C} = {Power(j, node) : j \in C}
    BY <1>1
  <1>4. top \in {f[j] : j \in C}
    <2> HIDE DEF f
    <2>1. Max({f[j] : j \in C}) \in {f[j] : j \in C}
      BY <1>1, <1>2, MaxOfValues
    <2>2. QED
      BY <2>1, <1>3
  <1>5. top \in {Power(j, node) : j \in C}
    BY <1>3, <1>4
  <1>6. {j \in C : Power(j, node) = top} # {}
    <2>1. PICK j \in C : top = Power(j, node)
      BY <1>5
    <2>2. QED
      BY <2>1
  <1>7. {j \in C : Power(j, node) = top} \in SUBSET Nat
    BY <1>1
  <1>8. Min({j \in C : Power(j, node) = top}) \in {j \in C : Power(j, node) = top}
    BY <1>6, <1>7, MinOfNaturals
  <1>9. QED
    BY <1>8 DEF Strongest

\* An outcome depends on the interferers, powers and sources only.
LEMMA OutcomeStable ==
    ASSUME MediumInv, NEW i \in DOMAIN aired, NEW node \in NodeId, NEW s,
           TrueInterferers(i)' = TrueInterferers(i),
           \A j \in DOMAIN aired : /\ aired'[j].power = aired[j].power
                                   /\ aired'[j].source = aired[j].source
    PROVE  OutcomeAgainst(TrueInterferers(i), i, node, s)'
              = OutcomeAgainst(TrueInterferers(i), i, node, s)
  <1> DEFINE C == TrueInterferers(i)
             best == Strongest(C, node)
  <1>1. C \in SUBSET DOMAIN aired /\ C' = C
    BY DEF TrueInterferers
  <1> HIDE DEF C
  <1>2. \A j \in DOMAIN aired : Power(j, node)' = Power(j, node)
    BY DEF Power
  <1>3. {Power(j, node) : j \in C}' = {Power(j, node) : j \in C}
    BY <1>1, <1>2
  <1>4. best' = best
    <2> DEFINE top == Max({Power(j, node) : j \in C})
    <2>1. top' = top
      BY <1>3
    <2> HIDE DEF top
    <2>2. {j \in C : Power(j, node) = top}' = {j \in C : Power(j, node) = top}
      BY <1>1, <1>2, <2>1
    <2>3. QED
      BY <2>2 DEF Strongest, top
  <1>5. C # {} => best \in DOMAIN aired
    BY <1>1, StrongestIn
  <1> HIDE DEF best
  <1>6. C # {} => Power(best, node)' = Power(best, node)
    BY <1>4, <1>5 DEF Power
  <1>7. OutcomeAgainst(C, i, node, s)' = OutcomeAgainst(C, i, node, s)
    BY <1>1, <1>2, <1>4, <1>6 DEF OutcomeAgainst, LossOrDelivery, best
  <1>8. QED
    BY <1>7 DEF C

-----------------------------------------------------------------------------
(* Operations *)

\* What transmit accepts is a transmission of the medium.
LEMMA AcceptedTransmission ==
    ASSUME NEW e \in Emission, NEW s \in MediumTime, Accepted(Transmission(e, s))
    PROVE  Transmission(e, s) \in AiredTransmission
  <1>1. e.source \in NodeId /\ e.power \in Int /\ e.airtime \in Nat
    BY MediumAssumption DEF NodeId
  <1>2. s + e.airtime \in MediumTime
    BY <1>1, MediumAssumption DEF Accepted, Transmission, MediumTime
  <1>3. QED
    BY <1>1, <1>2 DEF Transmission, AiredTransmission

\* transmit appends transmissions that start in the medium's future and
\* changes none of the earlier ones, reply or not.
LEMMA TransmitAppends ==
    ASSUME MediumInv, NEW e \in Emission, NEW s \in MediumTime, NEW reply,
           reply = NoReply \/ \E f \in Emission, u \in MediumTime : reply = Transmission(f, u),
           Transmit(e, s, reply)
    PROVE  /\ aired' \in Seq(AiredTransmission)
           /\ DOMAIN aired \subseteq DOMAIN aired'
           /\ \A i \in DOMAIN aired : aired'[i] = aired[i]
           /\ \A i \in DOMAIN aired' \ DOMAIN aired :
                 aired'[i].start < aired'[i].end /\ m_now <= aired'[i].start
  <1> DEFINE t == Transmission(e, s)
             new == IF reply # NoReply /\ Accepted(reply) /\ Len(aired) + 2 <= MediumMaxId
                    THEN <<t, reply>> ELSE <<t>>
             Fit(x) == x \in AiredTransmission /\ x.start < x.end /\ m_now <= x.start
  <1>1. aired \in Seq(AiredTransmission) /\ m_now \in Int
    BY MediumAssumption DEF MediumInv, MediumTypeOK, MediumTime
  <1>2. aired' = aired \o new /\ Accepted(t)
    BY DEF Transmit
  <1>3. ASSUME NEW f \in Emission, NEW u \in MediumTime, Accepted(Transmission(f, u))
        PROVE  Fit(Transmission(f, u))
    <2>1. Transmission(f, u) \in AiredTransmission
      BY <1>3, AcceptedTransmission
    <2>2. Transmission(f, u).start \in Int /\ Transmission(f, u).end \in Int
      BY <2>1, MediumAssumption DEF AiredTransmission, MediumTime
    <2>3. QED
      BY <1>1, <1>3, <2>1, <2>2 DEF Accepted
  <1>4. Fit(t)
    BY <1>2, <1>3
  <1>5. reply # NoReply /\ Accepted(reply) => Fit(reply)
    BY <1>3
  <1>6. /\ new \in Seq(AiredTransmission)
        /\ \A k \in 1..Len(new) : Fit(new[k])
    <2> HIDE DEF Fit, t
    <2>1. CASE reply # NoReply /\ Accepted(reply) /\ Len(aired) + 2 <= MediumMaxId
      <3>1. new = <<t, reply>> /\ Fit(t) /\ Fit(reply)
        BY <1>4, <1>5, <2>1
      <3>2. t \in AiredTransmission /\ reply \in AiredTransmission
        BY <3>1 DEF Fit
      <3>3. Len(new) = 2 /\ new[1] = t /\ new[2] = reply
        BY <3>1
      <3>4. \A k \in 1..2 : k = 1 \/ k = 2
        OBVIOUS
      <3>5. QED
        BY <3>1, <3>2, <3>3, <3>4
    <2>2. CASE ~(reply # NoReply /\ Accepted(reply) /\ Len(aired) + 2 <= MediumMaxId)
      <3>1. new = <<t>> /\ Fit(t)
        BY <1>4, <2>2
      <3>2. t \in AiredTransmission
        BY <3>1 DEF Fit
      <3>3. Len(new) = 1 /\ new[1] = t
        BY <3>1
      <3>4. QED
        BY <3>1, <3>2, <3>3
    <2>3. QED
      BY <2>1, <2>2
  <1> HIDE DEF new
  <1>7. /\ aired \o new \in Seq(AiredTransmission)
        /\ Len(aired \o new) = Len(aired) + Len(new)
        /\ \A i \in 1..Len(aired) : (aired \o new)[i] = aired[i]
        /\ \A i \in (Len(aired) + 1)..(Len(aired) + Len(new)) :
              (aired \o new)[i] = new[i - Len(aired)]
    BY <1>1, <1>6
  <1>8. /\ DOMAIN aired = 1..Len(aired) /\ Len(aired) \in Nat /\ Len(new) \in Nat
        /\ DOMAIN aired' = 1..(Len(aired) + Len(new))
    BY <1>1, <1>2, <1>6, <1>7
  <1>9. ASSUME NEW i \in DOMAIN aired' \ DOMAIN aired
        PROVE  Fit(aired'[i])
    <2>1. i \in (Len(aired) + 1)..(Len(aired) + Len(new)) /\ i - Len(aired) \in 1..Len(new)
      BY <1>8
    <2>2. QED
      BY <2>1, <1>2, <1>6, <1>7
  <1>10. QED
    BY <1>2, <1>7, <1>8, <1>9

\* truncate moves one end, to the machine's time.
LEMMA TruncateMovesEnd ==
    ASSUME MediumInv, NEW k \in DOMAIN aired, Truncate(k)
    PROVE  /\ aired' \in Seq(AiredTransmission)
           /\ DOMAIN aired' = DOMAIN aired
           /\ \A i \in DOMAIN aired \ {k} : aired'[i] = aired[i]
           /\ aired'[k] = [aired[k] EXCEPT !.end = clock]
           /\ k \notin resolved
           /\ aired[k].start <= clock /\ clock <= aired[k].end
  <1>1. aired \in Seq(AiredTransmission) /\ clock \in MediumTime
    BY DEF MediumInv, MediumTypeOK
  <1>2. aired[k] \in AiredTransmission
    BY <1>1
  <1>3. [aired[k] EXCEPT !.end = clock] \in AiredTransmission
    BY <1>1, <1>2 DEF AiredTransmission
  <1>4. aired' = [aired EXCEPT ![k] = [aired[k] EXCEPT !.end = clock]]
    BY DEF Truncate
  <1>5. aired[k].start \in Int /\ aired[k].end \in Int /\ clock \in Int
    BY <1>1, <1>2, MediumAssumption DEF AiredTransmission, MediumTime
  <1>6. aired' \in Seq(AiredTransmission)
    BY <1>1, <1>3, <1>4
  <1>7. QED
    BY <1>4, <1>5, <1>6 DEF Truncate

\* What disturbed a received transmission is settled: neither a later
\* transmission nor the truncation of another one can change it.
LEMMA InterferersSettled ==
    ASSUME MediumInv, NEW i \in resolved \ truncated,
           DOMAIN aired \subseteq DOMAIN aired',
           aired' \in Seq(AiredTransmission),
           aired'[i] = aired[i],
           \A j \in DOMAIN aired \ {i} :
              /\ aired'[j].start = aired[j].start
              /\ aired'[j].spectrum = aired[j].spectrum
              /\ \/ aired'[j].end = aired[j].end
                 \/ /\ aired'[j].start <= aired'[j].end
                    /\ m_now <= aired[j].end
                    /\ m_now <= aired'[j].end,
           \A j \in DOMAIN aired' \ DOMAIN aired :
              m_now <= aired'[j].start /\ aired'[j].start < aired'[j].end
    PROVE  TrueInterferers(i)' = TrueInterferers(i)
  <1>1. /\ i \in DOMAIN aired
        /\ aired[i].start < aired[i].end /\ aired[i].end <= m_now
        /\ aired[i].start \in Int /\ aired[i].end \in Int /\ m_now \in Int
    BY MediumAssumption DEF MediumInv, MediumTypeOK, ResolvedIsOver, MediumTime
  <1>2. ASSUME NEW j \in DOMAIN aired'
        PROVE  aired'[j].start \in Int /\ aired'[j].end \in Int
    <2>1. aired'[j] \in AiredTransmission
      OBVIOUS
    <2>2. QED
      BY <2>1, MediumAssumption DEF AiredTransmission, MediumTime
  <1>3. ASSUME NEW j \in DOMAIN aired \ {i}
        PROVE  j \in TrueInterferers(i)' <=> j \in TrueInterferers(i)
    <2>1. /\ aired[j].start \in Int /\ aired[j].end \in Int
          /\ aired[j].start <= aired[j].end
      BY MediumAssumption DEF MediumInv, MediumTypeOK, ResolvedIsOver, MediumTime
    <2>2. j \in TrueInterferers(i) <=>
             /\ aired[i].spectrum \cap aired[j].spectrum # {}
             /\ aired[i].start < aired[j].end
             /\ aired[j].start < aired[i].end
      BY <1>1, TrueByIntervals
    <2>3. /\ aired'[j].start \in Int /\ aired'[j].end \in Int
          /\ aired'[j].start <= aired'[j].end
      BY <1>2, <2>1
    <2>4. j \in TrueInterferers(i)' <=>
             /\ aired'[i].spectrum \cap aired'[j].spectrum # {}
             /\ aired'[i].start < aired'[j].end
             /\ aired'[j].start < aired'[i].end
      <3>1. j \in TrueInterferers(i)' <=>
               /\ aired'[i].spectrum \cap aired'[j].spectrum # {}
               /\ Meets(aired'[i].start, aired'[i].end, aired'[j].start, aired'[j].end)
        BY DEF TrueInterferers, Ticks, Meets
      <3>2. QED
        BY <1>1, <2>3, <3>1, SharedInstant
    <2>5. aired[i].start < aired'[j].end <=> aired[i].start < aired[j].end
      BY <1>1, <2>1, <2>3
    <2>6. QED
      BY <2>2, <2>4, <2>5
  <1>4. ASSUME NEW j \in DOMAIN aired' \ DOMAIN aired
        PROVE  j \notin TrueInterferers(i)'
    <2>1. j \in TrueInterferers(i)' <=>
             /\ aired'[i].spectrum \cap aired'[j].spectrum # {}
             /\ aired'[i].start < aired'[j].end
             /\ aired'[j].start < aired'[i].end
      <3>1. aired'[j].start <= aired'[j].end /\ j # i
        BY <1>1, <1>2
      <3>2. QED
        BY <1>1, <1>2, <3>1, SharedInstant DEF TrueInterferers, Ticks, Meets
    <2>2. QED
      BY <1>1, <1>2, <2>1
  <1>5. QED
    BY <1>3, <1>4 DEF TrueInterferers

\* A step under which every received transmission keeps its interferers,
\* and all powers stay, keeps the recorded outcomes.
LEMMA OutcomesKept ==
    ASSUME MediumInv, receptions' = receptions,
           \A j \in DOMAIN aired : /\ aired'[j].power = aired[j].power
                                   /\ aired'[j].source = aired[j].source,
           \A i \in resolved \ truncated : TrueInterferers(i)' = TrueInterferers(i)
    PROVE  OutcomesMatchHistory'
  <1>1. SUFFICES ASSUME NEW r \in receptions
                 PROVE  r.outcome = OutcomeAgainst(TrueInterferers(r.id), r.id, r.node, r.sensitivity)'
    BY DEF OutcomesMatchHistory
  <1>2. r.id \in resolved \ truncated /\ r.id \in DOMAIN aired /\ r.node \in NodeId
    BY DEF MediumInv, MediumTypeOK, ReceivedIsResolved
  <1>3. r.outcome = OutcomeAgainst(TrueInterferers(r.id), r.id, r.node, r.sensitivity)
    BY DEF MediumInv, OutcomesMatchHistory
  <1>4. TrueInterferers(r.id)' = TrueInterferers(r.id)
    BY <1>2
  <1>5. QED
    BY <1>2, <1>3, <1>4, OutcomeStable

-----------------------------------------------------------------------------
(* The inductive invariant *)

LEMMA MediumInitInv == MediumInit => MediumInv
  <1> SUFFICES ASSUME MediumInit PROVE MediumInv
    OBVIOUS
  <1>2. DOMAIN aired = {} /\ aired \in Seq(AiredTransmission)
    BY DEF MediumInit
  <1>3. QED
    BY <1>2, MediumAssumption
       DEF MediumInit, MediumInv, MediumTypeOK, MediumTime, ResolvedIsOver,
           PrunedIsHarmless, ReceivedIsResolved, OutcomesMatchHistory

LEMMA TickInv == MediumInv /\ Tick => MediumInv'
  <1> SUFFICES ASSUME MediumInv, Tick PROVE MediumInv'
    OBVIOUS
  <1>2. \A i \in resolved \ truncated : TrueInterferers(i)' = TrueInterferers(i)
    BY DEF Tick, TrueInterferers, Ticks
  <1>3. OutcomesMatchHistory'
    BY <1>2, OutcomesKept DEF Tick
  <1>4. clock \in Int /\ m_now \in Int /\ \A i \in DOMAIN aired : aired[i].end \in Int
    BY MediumAssumption DEF MediumInv, MediumTypeOK, MediumTime
  <1>5. MediumTypeOK'
    BY <1>4, MediumAssumption DEF MediumInv, MediumTypeOK, MediumTime, Tick
  <1>6. ResolvedIsOver'
    BY <1>4 DEF MediumInv, ResolvedIsOver, Tick
  <1>7. QED
    BY <1>3, <1>5, <1>6 DEF MediumInv, PrunedIsHarmless, ReceivedIsResolved, Tick

LEMMA ReceiverInv ==
    ASSUME MediumInv, NEW r \in ReceiverConfig, TuneReceiver(r) \/ RemoveReceiver(r)
    PROVE  MediumInv'
  <1>1. /\ receivers' \subseteq ReceiverConfig
        /\ UNCHANGED <<clock, m_now, aired, retained, resolved, receptions, truncated>>
    BY DEF MediumInv, MediumTypeOK, TuneReceiver, RemoveReceiver
  <1>2. \A i \in resolved \ truncated : TrueInterferers(i)' = TrueInterferers(i)
    BY <1>1 DEF TrueInterferers, Ticks
  <1>3. OutcomesMatchHistory'
    BY <1>1, <1>2, OutcomesKept
  <1>4. QED
    BY <1>1, <1>3 DEF MediumInv, MediumTypeOK, ResolvedIsOver, PrunedIsHarmless,
                      ReceivedIsResolved

LEMMA TransmitInv ==
    ASSUME MediumInv, NEW e \in Emission, NEW s \in MediumTime, NEW reply,
           reply = NoReply \/ \E f \in Emission, u \in MediumTime : reply = Transmission(f, u),
           Transmit(e, s, reply)
    PROVE  MediumInv'
  <1>1. /\ aired' \in Seq(AiredTransmission)
        /\ DOMAIN aired \subseteq DOMAIN aired'
        /\ \A i \in DOMAIN aired : aired'[i] = aired[i]
        /\ \A i \in DOMAIN aired' \ DOMAIN aired :
              aired'[i].start < aired'[i].end /\ m_now <= aired'[i].start
    BY TransmitAppends
  <1>2. /\ retained' = retained \cup (DOMAIN aired' \ DOMAIN aired)
        /\ UNCHANGED <<clock, m_now, receivers, resolved, receptions, truncated>>
    BY DEF Transmit
  <1>3. \A i \in DOMAIN aired' : aired'[i].start \in MediumTime /\ aired'[i].end \in MediumTime
    <2>1. \A i \in DOMAIN aired' : aired'[i] \in AiredTransmission
      BY <1>1
    <2>2. QED
      BY <2>1 DEF AiredTransmission
  <1>4. \A i \in resolved \ truncated : TrueInterferers(i)' = TrueInterferers(i)
    <2>1. SUFFICES ASSUME NEW i \in resolved \ truncated
                   PROVE  TrueInterferers(i)' = TrueInterferers(i)
      OBVIOUS
    <2>2. i \in DOMAIN aired
      BY DEF MediumInv, MediumTypeOK
    <2>3. QED
      BY <1>1, <2>2, InterferersSettled
  <1>5. OutcomesMatchHistory'
    BY <1>1, <1>2, <1>4, OutcomesKept
  <1>6. MediumTypeOK'
    BY <1>1, <1>2, <1>3 DEF MediumInv, MediumTypeOK
  <1>7. ResolvedIsOver'
    <2>1. \A i \in DOMAIN aired' \ DOMAIN aired : i \notin resolved
      BY DEF MediumInv, MediumTypeOK
    <2>2. \A i \in DOMAIN aired' : aired'[i].start \in Int /\ aired'[i].end \in Int
      BY <1>3, MediumAssumption DEF MediumTime
    <2>3. QED
      BY <1>1, <1>2, <2>1, <2>2 DEF MediumInv, ResolvedIsOver
  <1>8. PrunedIsHarmless'
    <2>1. SUFFICES ASSUME NEW i \in DOMAIN aired' \ retained'
                   PROVE  /\ aired'[i].end <= m_now
                          /\ \A j \in DOMAIN aired' \ resolved : aired'[i].end <= aired'[j].start
      BY <1>2 DEF PrunedIsHarmless
    <2>2. i \in DOMAIN aired \ retained /\ aired'[i] = aired[i]
      BY <1>1, <1>2
    <2>3. /\ aired[i].end <= m_now
          /\ \A j \in DOMAIN aired \ resolved : aired[i].end <= aired[j].start
      BY <2>2 DEF MediumInv, PrunedIsHarmless
    <2>4. m_now \in Int /\ aired'[i].end \in Int /\ \A j \in DOMAIN aired' : aired'[j].start \in Int
      BY <1>3, <2>1, MediumAssumption DEF MediumTime, MediumInv, MediumTypeOK
    <2>5. QED
      BY <1>1, <2>2, <2>3, <2>4
  <1>9. ReceivedIsResolved'
    BY <1>2 DEF MediumInv, ReceivedIsResolved
  <1>10. QED
    BY <1>1, <1>5, <1>6, <1>7, <1>8, <1>9 DEF MediumInv

LEMMA TruncateInv ==
    ASSUME MediumInv, NEW k \in DOMAIN aired, Truncate(k)
    PROVE  MediumInv'
  <1>1. /\ aired' \in Seq(AiredTransmission)
        /\ DOMAIN aired' = DOMAIN aired
        /\ \A i \in DOMAIN aired \ {k} : aired'[i] = aired[i]
        /\ aired'[k] = [aired[k] EXCEPT !.end = clock]
        /\ k \notin resolved
        /\ aired[k].start <= clock /\ clock <= aired[k].end
    BY TruncateMovesEnd
  <1>2. /\ resolved' = resolved \cup {k} /\ truncated' = truncated \cup {k}
        /\ UNCHANGED <<clock, m_now, receivers, retained, receptions>>
    BY DEF Truncate
  <1>3. aired[k] \in AiredTransmission
    BY DEF MediumInv
  <1>4. /\ aired'[k].start = aired[k].start /\ aired'[k].end = clock
        /\ aired'[k].power = aired[k].power /\ aired'[k].source = aired[k].source
        /\ aired'[k].spectrum = aired[k].spectrum
    BY <1>1, <1>3 DEF AiredTransmission
  <1>5. /\ clock \in Int /\ m_now \in Int /\ m_now <= clock /\ clock \in MediumTime
        /\ \A i \in DOMAIN aired : aired[i].start \in Int /\ aired[i].end \in Int
    BY MediumAssumption DEF MediumInv, MediumTypeOK, MediumTime
  <1>6. \A i \in resolved \ truncated : TrueInterferers(i)' = TrueInterferers(i)
    <2>1. SUFFICES ASSUME NEW i \in resolved \ truncated
                   PROVE  TrueInterferers(i)' = TrueInterferers(i)
      OBVIOUS
    <2>2. i \in DOMAIN aired /\ i # k /\ aired'[i] = aired[i]
      BY <1>1 DEF MediumInv, MediumTypeOK
    <2>3. ASSUME NEW j \in DOMAIN aired \ {i}
          PROVE  /\ aired'[j].start = aired[j].start
                 /\ aired'[j].spectrum = aired[j].spectrum
                 /\ \/ aired'[j].end = aired[j].end
                    \/ /\ aired'[j].start <= aired'[j].end
                       /\ m_now <= aired[j].end
                       /\ m_now <= aired'[j].end
      <3>1. CASE j = k
        BY <3>1, <1>1, <1>4, <1>5
      <3>2. CASE j # k
        BY <3>2, <1>1
      <3>3. QED
        BY <3>1, <3>2
    <2>4. QED
      BY <1>1, <2>2, <2>3, InterferersSettled
  <1>7. OutcomesMatchHistory'
    <2>1. \A j \in DOMAIN aired : aired'[j].power = aired[j].power /\ aired'[j].source = aired[j].source
      BY <1>1, <1>4
    <2>2. QED
      BY <1>2, <1>6, <2>1, OutcomesKept
  <1>8. MediumTypeOK'
    <2>1. \A i \in DOMAIN aired : aired'[i].start \in MediumTime /\ aired'[i].end \in MediumTime
      BY <1>1, <1>4, <1>5 DEF MediumInv, MediumTypeOK
    <2>2. QED
      BY <1>1, <1>2, <2>1 DEF MediumInv, MediumTypeOK
  <1>9. ResolvedIsOver'
    <2>1. SUFFICES ASSUME NEW i \in DOMAIN aired
                   PROVE  /\ aired'[i].start <= aired'[i].end
                          /\ i \notin truncated' => aired'[i].start < aired'[i].end
                          /\ i \in resolved' => aired'[i].end <= clock
                          /\ i \in resolved' \ truncated' => aired'[i].end <= m_now
      BY <1>1, <1>2 DEF ResolvedIsOver
    <2>2. CASE i = k
      BY <2>2, <1>1, <1>2, <1>4, <1>5
    <2>3. CASE i # k
      BY <2>3, <1>1, <1>2 DEF MediumInv, ResolvedIsOver
    <2>4. QED
      BY <2>2, <2>3
  <1>10. PrunedIsHarmless'
    <2>1. SUFFICES ASSUME NEW i \in DOMAIN aired \ retained
                   PROVE  /\ aired'[i].end <= m_now
                          /\ \A j \in DOMAIN aired \ resolved' : aired'[i].end <= aired'[j].start
      BY <1>1, <1>2 DEF PrunedIsHarmless
    <2>2. i # k
      BY DEF Truncate
    <2>3. QED
      BY <1>1, <1>2, <1>4, <2>2 DEF MediumInv, PrunedIsHarmless
  <1>11. ReceivedIsResolved'
    BY <1>1, <1>2 DEF MediumInv, ReceivedIsResolved
  <1>12. QED
    BY <1>1, <1>7, <1>8, <1>9, <1>10, <1>11 DEF MediumInv

\* When advance_to judges a transmission, the vector still holds everything
\* that disturbed it.
LEMMA RetainedSuffices ==
    ASSUME MediumInv, NEW i \in DOMAIN aired \ resolved
    PROVE  Interferers(retained, i) = TrueInterferers(i)
  <1>1. /\ aired[i].start < aired[i].end
        /\ retained \subseteq DOMAIN aired
        /\ \A j \in DOMAIN aired : aired[j].start \in Int /\ aired[j].end \in Int
    BY MediumAssumption DEF MediumInv, MediumTypeOK, MediumTime, ResolvedIsOver
  <1>2. \A j \in DOMAIN aired \ {i} :
           j \in TrueInterferers(i) <=> j \in Interferers(DOMAIN aired, i)
    BY <1>1, TrueByIntervals DEF Interferers, IntervalsOverlap, Overlaps
  <1>3. \A j \in DOMAIN aired \ retained : ~(aired[i].start < aired[j].end)
    BY <1>1 DEF MediumInv, PrunedIsHarmless
  <1>4. QED
    BY <1>1, <1>2, <1>3 DEF Interferers, IntervalsOverlap, TrueInterferers

LEMMA AdvanceInv == MediumInv /\ AdvanceTo => MediumInv'
  <1> SUFFICES ASSUME MediumInv, AdvanceTo PROVE MediumInv'
    OBVIOUS
  <1> DEFINE Due == Resolvable(clock)
  <1>1. /\ m_now' = clock /\ resolved' = resolved \cup Due
        /\ UNCHANGED <<clock, receivers, aired, truncated>>
        /\ receptions' = receptions \cup UNION {Resolve(i, clock) : i \in Due}
        /\ retained' = {i \in retained : \/ i \notin resolved'
                                        \/ \E j \in retained \ resolved' :
                                               aired[i].end > aired[j].start}
    BY DEF AdvanceTo, Kept
  <1>2. /\ clock \in Int /\ m_now \in Int /\ m_now <= clock
        /\ \A i \in DOMAIN aired : aired[i].start \in Int /\ aired[i].end \in Int
        /\ retained \subseteq DOMAIN aired /\ DOMAIN aired \ resolved \subseteq retained
        /\ truncated \subseteq resolved
    BY MediumAssumption DEF MediumInv, MediumTypeOK, MediumTime
  <1>3. \A i \in Due : i \in retained \ resolved /\ aired[i].end <= clock
    BY DEF Resolvable
  <1> HIDE DEF Due
  <1>4. MediumTypeOK'
    <2>1. clock \in 0..clock
      BY MediumAssumption DEF MediumInv, MediumTypeOK, MediumTime
    <2>2. QED
      BY <1>1, <1>2, <1>3, <2>1 DEF MediumInv, MediumTypeOK
  <1>5. ResolvedIsOver'
    <2>1. SUFFICES ASSUME NEW i \in DOMAIN aired
                   PROVE  /\ aired[i].start <= aired[i].end
                          /\ i \notin truncated => aired[i].start < aired[i].end
                          /\ i \in resolved' => aired[i].end <= clock
      BY <1>1 DEF ResolvedIsOver
    <2>2. QED
      BY <1>1, <1>3 DEF MediumInv, ResolvedIsOver
  <1>6. PrunedIsHarmless'
    <2>1. SUFFICES ASSUME NEW i \in DOMAIN aired \ retained'
                   PROVE  /\ aired[i].end <= clock
                          /\ \A j \in DOMAIN aired \ resolved' : aired[i].end <= aired[j].start
      BY <1>1 DEF PrunedIsHarmless
    <2>2. CASE i \notin retained
      BY <1>1, <1>2, <2>2 DEF MediumInv, PrunedIsHarmless
    <2>3. CASE i \in retained
      <3>1. /\ i \in resolved'
            /\ \A j \in retained \ resolved' : ~(aired[i].end > aired[j].start)
        BY <1>1, <2>3
      <3>2. aired[i].end <= clock
        BY <1>1, <1>3, <3>1 DEF MediumInv, ResolvedIsOver
      <3>3. \A j \in DOMAIN aired \ resolved' : j \in retained \ resolved'
        BY <1>1, <1>2
      <3>4. QED
        BY <1>2, <3>1, <3>2, <3>3
    <2>4. QED
      BY <2>2, <2>3
  <1>7. ASSUME NEW r \in receptions'
        PROVE  \/ r \in receptions
               \/ /\ r.id \in Due /\ r.node \in NodeId
                  /\ r.outcome = OutcomeAgainst(Interferers(retained, r.id), r.id, r.node,
                                                r.sensitivity)
    <2>1. CASE r \in receptions
      BY <2>1
    <2>2. CASE r \notin receptions
      <3>1. PICK i \in Due : r \in Resolve(i, clock)
        BY <1>1, <2>2
      <3>2. PICK q \in receivers :
               r = [id |-> i, node |-> q.node, sensitivity |-> q.sensitivity, at |-> clock,
                    outcome |-> OutcomeAgainst(Interferers(retained, i), i, q.node, q.sensitivity)]
        BY <3>1 DEF Resolve
      <3>3. q.node \in NodeId
        BY DEF MediumInv, MediumTypeOK, NodeId
      <3>4. QED
        BY <3>2, <3>3
    <2>3. QED
      BY <2>1, <2>2
  <1>8. ReceivedIsResolved'
    <2>1. SUFFICES ASSUME NEW r \in receptions'
                   PROVE  r.id \in resolved' \ truncated /\ r.node \in NodeId
      BY <1>1 DEF ReceivedIsResolved
    <2>2. QED
      BY <1>1, <1>2, <1>3, <1>7 DEF MediumInv, ReceivedIsResolved
  <1>9. OutcomesMatchHistory'
    <2>1. SUFFICES ASSUME NEW r \in receptions'
                   PROVE  r.outcome =
                            OutcomeAgainst(TrueInterferers(r.id), r.id, r.node, r.sensitivity)'
      BY DEF OutcomesMatchHistory
    <2>2. r.id \in DOMAIN aired /\ r.node \in NodeId
      BY <1>7, <1>3, <1>2 DEF MediumInv, MediumTypeOK, ReceivedIsResolved
    <2>3. r.outcome = OutcomeAgainst(TrueInterferers(r.id), r.id, r.node, r.sensitivity)
      <3>1. CASE r \in receptions
        BY <3>1 DEF MediumInv, OutcomesMatchHistory
      <3>2. CASE r \notin receptions
        <4>1. Interferers(retained, r.id) = TrueInterferers(r.id)
          BY <1>3, <1>7, <2>2, <3>2, RetainedSuffices
        <4>2. QED
          BY <1>7, <3>2, <4>1
      <3>3. QED
        BY <3>1, <3>2
    <2>4. TrueInterferers(r.id)' = TrueInterferers(r.id)
      BY <1>1 DEF TrueInterferers, Ticks
    <2>5. QED
      BY <1>1, <2>2, <2>3, <2>4, OutcomeStable
  <1>10. QED
    BY <1>1, <1>4, <1>5, <1>6, <1>8, <1>9 DEF MediumInv

LEMMA MediumStepInv == MediumInv /\ [MediumNext]_medium_vars => MediumInv'
  <1> SUFFICES ASSUME MediumInv, [MediumNext]_medium_vars PROVE MediumInv'
    OBVIOUS
  <1>1. CASE Tick
    BY <1>1, TickInv
  <1>2. CASE AdvanceTo
    BY <1>2, AdvanceInv
  <1>3. CASE \E r \in ReceiverConfig : TuneReceiver(r) \/ RemoveReceiver(r)
    BY <1>3, ReceiverInv
  <1>4. ASSUME NEW e \in Emission, NEW s \in MediumTime, Transmit(e, s, NoReply)
        PROVE  MediumInv'
    BY <1>4, TransmitInv
  <1>5. ASSUME NEW e \in Emission, NEW s \in MediumTime, NEW f \in Emission,
               NEW u \in MediumTime, Transmit(e, s, Transmission(f, u))
        PROVE  MediumInv'
    BY <1>5, TransmitInv
  <1>6. CASE \E i \in DOMAIN aired : Truncate(i)
    BY <1>6, TruncateInv
  <1>7. CASE UNCHANGED medium_vars
    <2>1. \A i \in resolved \ truncated : TrueInterferers(i)' = TrueInterferers(i)
      BY <1>7 DEF TrueInterferers, Ticks, medium_vars
    <2>2. OutcomesMatchHistory'
      BY <1>7, <2>1, OutcomesKept DEF medium_vars
    <2>3. QED
      BY <1>7, <2>2 DEF medium_vars, MediumInv, MediumTypeOK, ResolvedIsOver,
                        PrunedIsHarmless, ReceivedIsResolved
  <1>8. QED
    BY <1>1, <1>2, <1>3, <1>4, <1>5, <1>6, <1>7 DEF MediumNext

\* The medium's invariant holds in every reachable state: its vector keeps
\* every unresolved transmission, a resolution lies in the past, and what
\* was pruned can touch nothing that is still to be resolved.
THEOREM MediumInvariance == MediumSpec => []MediumInv
  BY MediumInitInv, MediumStepInv, PTL DEF MediumSpec

-----------------------------------------------------------------------------
(* The properties of the run *)

\* Type correctness of the medium; advance_to and its pruning never lose an
\* unresolved transmission.
THEOREM MediumTypeCorrect == MediumSpec => []MediumTypeOK
  <1>1. MediumInv => MediumTypeOK
    BY DEF MediumInv
  <1>2. QED
    BY <1>1, MediumInvariance, PTL

\* Every Reception the medium records is the one the complete history gives,
\* however late advance_to was called and whatever was pruned, transmitted
\* or truncated before or after.
THEOREM OutcomesCorrect == MediumSpec => []OutcomesMatchHistory
  <1>1. MediumInv => OutcomesMatchHistory
    BY DEF MediumInv
  <1>2. QED
    BY <1>1, MediumInvariance, PTL

\* A truncated transmission reaches no receiver, before or after the cut.
THEOREM TruncationCorrect == MediumSpec => []TruncatedNeverReceived
  <1>1. MediumInv => TruncatedNeverReceived
    BY DEF MediumInv, ReceivedIsResolved, TruncatedNeverReceived
  <1>2. QED
    BY <1>1, MediumInvariance, PTL

\* energy_dbm_at and carrier_present_at see exactly what is on the air at the
\* medium's clock: pruning hides nothing from them.
THEOREM SensingCorrect == MediumSpec => []SensingMatchesHistory
  <1>1. ASSUME MediumInv PROVE SensingMatchesHistory
    <2>1. SUFFICES ASSUME NEW r \in ReceiverConfig
                   PROVE  SensingMatchesHistory!(r)
      BY DEF SensingMatchesHistory
    <2> DEFINE onAir == {i \in DOMAIN aired :
                          /\ m_now \in Ticks(i)
                          /\ aired[i].source # r.node
                          /\ aired[i].spectrum \cap r.spectrum # {}}
    <2>2. Heard(retained, r.node, r.spectrum) = onAir
      <3>1. /\ retained \subseteq DOMAIN aired /\ m_now \in Int
            /\ \A i \in DOMAIN aired : aired[i].start \in Int /\ aired[i].end \in Int
        BY <1>1, MediumAssumption DEF MediumInv, MediumTypeOK, MediumTime
      <3>2. \A i \in DOMAIN aired : m_now \in Ticks(i) <=> Audible(i)
        BY <3>1 DEF Ticks, Audible
      <3>3. \A i \in DOMAIN aired \ retained : ~Audible(i)
        BY <1>1, <3>1 DEF MediumInv, PrunedIsHarmless, Audible
      <3>4. QED
        BY <3>1, <3>2, <3>3 DEF Heard, Overlaps
    <2>3. QED
      BY <2>2 DEF Energy, CarrierPresent
  <1>2. QED
    BY <1>1, MediumInvariance, PTL
=============================================================================
