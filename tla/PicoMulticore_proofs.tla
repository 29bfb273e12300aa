------------------------ MODULE PicoMulticore_proofs ------------------------
(***************************************************************************)
(* Proofs about PicoMulticore, for every depth of the FIFOs, every even     *)
(* modulus of the words, and every pair of programs.                        *)
(*                                                                          *)
(* The arithmetic of the divider comes first: it needs no state.  Then      *)
(* three invariants, each inductive relative to the ones before it: the     *)
(* types with the shape of a call in progress; the launch handshake with    *)
(* what has been pushed, popped and is on its way; the lock of the divider  *)
(* with what the divider holds for the core inside.                         *)
(***************************************************************************)
EXTENDS PicoMulticore, SequenceTheorems, TLAPS

-----------------------------------------------------------------------------
(* The divider: what its two results are *)

LEMMA UnsignedIsWord == \A x \in Int : Unsigned(x) \in Word
  BY ModulusAssumption DEF Word, Unsigned

LEMMA UnsignedShift == \A x \in Int : \E k \in Int : Unsigned(x) = x + k * Modulus
<1> SUFFICES ASSUME NEW x \in Int PROVE \E k \in Int : Unsigned(x) = x + k * Modulus
    OBVIOUS
<1>1. x = Modulus * (x \div Modulus) + (x % Modulus) /\ x \div Modulus \in Int /\ x % Modulus \in Int
    BY ModulusAssumption, Z3T(20)
<1>2. Unsigned(x) = x + (-(x \div Modulus)) * Modulus
    BY <1>1, ModulusAssumption, Z3T(20) DEF Unsigned
<1>3. -(x \div Modulus) \in Int
    BY <1>1
<1> QED BY <1>2, <1>3

LEMMA ShiftedWord ==
    \A n \in Word, k \in Int : (n + k * Modulus) % Modulus = n
<1> SUFFICES ASSUME NEW n \in Word, NEW k \in Int PROVE (n + k * Modulus) % Modulus = n
    OBVIOUS
<1>1. n \in Int /\ 0 <= n /\ n < Modulus /\ Modulus \in Nat /\ Modulus > 0
    BY ModulusAssumption DEF Word
<1> QED BY <1>1, Z3T(20)

LEMMA SignedShift ==
    \A w \in Word : /\ Signed(w) \in Int
                    /\ \E k \in Int : Signed(w) = w + k * Modulus
                    /\ w # 0 <=> Signed(w) # 0
                    /\ 2 * Signed(w) < Modulus /\ -Modulus <= 2 * Signed(w)
<1> SUFFICES ASSUME NEW w \in Word 
    PROVE           /\ Signed(w) \in Int
                    /\ \E k \in Int : Signed(w) = w + k * Modulus
                    /\ w # 0 <=> Signed(w) # 0
                    /\ 2 * Signed(w) < Modulus /\ -Modulus <= 2 * Signed(w)
    OBVIOUS
<1>1. w \in Int /\ 0 <= w /\ w < Modulus /\ Modulus \in Nat /\ Modulus > 0
    BY ModulusAssumption DEF Word
<1>2. Signed(w) = w + 0 * Modulus \/ Signed(w) = w + (-1) * Modulus
    BY <1>1 DEF Signed
<1> QED BY <1>1, <1>2, Z3T(20) DEF Signed

LEMMA SignedOfUnsigned ==
    \A x \in Int : 2 * x < Modulus /\ -Modulus <= 2 * x => Signed(Unsigned(x)) = x
<1> SUFFICES ASSUME NEW x \in Int, 2 * x < Modulus, -Modulus <= 2 * x PROVE Signed(Unsigned(x)) = x
    OBVIOUS
<1>1. Modulus \in Nat /\ Modulus > 0
    BY ModulusAssumption
<1>2. CASE x >= 0
  <2>1. x % Modulus = x
      BY <1>1, <1>2, Z3T(20)
  <2> QED BY <1>1, <1>2, <2>1 DEF Signed, Unsigned
<1>3. CASE x < 0
  <2>1. x % Modulus = x + Modulus
      BY <1>1, <1>3, Z3T(20)
  <2> QED BY <1>1, <1>3, <2>1 DEF Signed, Unsigned
<1> QED BY <1>2, <1>3

LEMMA DivMod ==
    \A n, d \in Nat : d > 0 =>
        /\ n \div d \in 0..n /\ n % d \in 0..(d - 1) /\ n % d <= n
        /\ n = d * (n \div d) + (n % d)
  BY Z3T(30)

LEMMA MagnitudeProps == \A x \in Int : Magnitude(x) \in Nat /\ (x # 0 => Magnitude(x) > 0)
   /\ (x >= 0 => Magnitude(x) = x) /\ (x < 0 => Magnitude(x) = -x)
  BY DEF Magnitude

LEMMA Truncation ==
    \A n, d \in Int : d # 0 =>
        LET r == n - d * TowardsZero(n, d)
        IN  /\ TowardsZero(n, d) \in Int /\ r \in Int
            /\ Magnitude(r) < Magnitude(d)
            /\ Magnitude(r) <= Magnitude(n)
            /\ r # 0 => (r < 0) = (n < 0)
<1> SUFFICES ASSUME NEW n \in Int, NEW d \in Int, d # 0
             PROVE  LET r == n - d * TowardsZero(n, d)
        IN  /\ TowardsZero(n, d) \in Int /\ r \in Int
            /\ Magnitude(r) < Magnitude(d)
            /\ Magnitude(r) <= Magnitude(n)
            /\ r # 0 => (r < 0) = (n < 0)
    OBVIOUS
<1> DEFINE N == Magnitude(n)  D == Magnitude(d) q == N \div D m == N % D
<1>1. N \in Nat /\ D \in Nat /\ D > 0
    BY MagnitudeProps
<1>2. q \in Nat /\ m \in 0..(D-1) /\ m <= N /\ N = D * q + m
    BY <1>1, DivMod
<1>3. TowardsZero(n, d) = IF (n < 0) = (d < 0) THEN q ELSE -q
    BY DEF TowardsZero
<1> HIDE DEF q, m
<1>5. n - d * TowardsZero(n, d) = IF n < 0 THEN -m ELSE m
  <2>1. CASE n >= 0 /\ d >= 0
     BY <2>1, <1>1, <1>2, <1>3, MagnitudeProps, Z3T(20)
  <2>2. CASE n >= 0 /\ d < 0
     BY <2>2, <1>1, <1>2, <1>3, MagnitudeProps, Z3T(20)
  <2>3. CASE n < 0 /\ d >= 0
     BY <2>3, <1>1, <1>2, <1>3, MagnitudeProps, Z3T(20)
  <2>4. CASE n < 0 /\ d < 0
     BY <2>4, <1>1, <1>2, <1>3, MagnitudeProps, Z3T(20)
  <2> QED BY <2>1, <2>2, <2>3, <2>4
<1>6. TowardsZero(n, d) \in Int
    BY <1>2, <1>3
<1> QED BY <1>1, <1>2, <1>5, <1>6 DEF Magnitude

Exact(n, d, signed, q, r) ==
    /\ q \in Word /\ r \in Word
    /\ (q * d + r) % Modulus = n
    /\ d # 0 /\ ~signed => r < d
    /\ d # 0 /\ signed =>
          /\ Magnitude(Signed(r)) < Magnitude(Signed(d))
          /\ r # 0 => (Signed(r) < 0) = (Signed(n) < 0)

LEMMA DivisionExact ==
    \A n, d \in Word, signed \in BOOLEAN :
        Exact(n, d, signed, Quotient(n, d, signed), Remainder(n, d, signed))
<1> SUFFICES ASSUME NEW n \in Word, NEW d \in Word, NEW signed \in BOOLEAN
             PROVE  Exact(n, d, signed, Quotient(n, d, signed), Remainder(n, d, signed))
    OBVIOUS
<1> DEFINE q == Quotient(n, d, signed)
           r == Remainder(n, d, signed)
<1>1. /\ Modulus \in Nat /\ Modulus >= 2 /\ n \in Nat /\ n < Modulus
      /\ d \in Nat /\ d < Modulus
    BY ModulusAssumption DEF Word
<1>2. CASE d = 0
  <2>1. q \in Word /\ q \in Int /\ r = n
      BY <1>1, <1>2 DEF Quotient, Remainder, Word
  <2> HIDE DEF q, r
  <2>2. q * d + r = n + 0 * Modulus
      BY <1>1, <1>2, <2>1
  <2>3. (q * d + r) % Modulus = n
      BY <2>2, ShiftedWord
  <2> QED BY <1>2, <2>1, <2>3 DEF Exact, q, r
<1>3. CASE d # 0 /\ ~signed
  <2>1. q = n \div d /\ r = n % d
      BY <1>3 DEF Quotient, Remainder
  <2>2. q \in 0..n /\ r \in 0..(d - 1) /\ n = d * q + r
      BY <1>1, <1>3, <2>1, DivMod
  <2> HIDE DEF q, r
  <2>3. q * d + r = n + 0 * Modulus
      BY <1>1, <2>2, Z3T(20)
  <2>4. (q * d + r) % Modulus = n
      BY <2>3, ShiftedWord
  <2>5. q \in Word /\ r \in Word /\ r < d
      BY <1>1, <2>2 DEF Word
  <2> QED BY <1>3, <2>4, <2>5 DEF Exact, q, r
<1>4. CASE d # 0 /\ signed
  <2> DEFINE N == Signed(n)  D == Signed(d)  t == TowardsZero(N, D)  s == N - D * t
  <2>1. q = Unsigned(t) /\ r = Unsigned(s)
      BY <1>4 DEF Quotient, Remainder
  <2>2. /\ N \in Int /\ D \in Int /\ D # 0
        /\ 2 * N < Modulus /\ -Modulus <= 2 * N
      BY <1>4, SignedShift
  <2>3. /\ t \in Int /\ s \in Int
        /\ Magnitude(s) < Magnitude(D) /\ Magnitude(s) <= Magnitude(N)
        /\ s # 0 => (s < 0) = (N < 0)
      BY <2>2, Truncation
  <2>4. q \in Word /\ r \in Word
      BY <2>1, <2>3, UnsignedIsWord
  <2>5. PICK kn \in Int : N = n + kn * Modulus
      BY SignedShift
  <2>6. PICK kd \in Int : D = d + kd * Modulus
      BY SignedShift
  <2>7. PICK kq \in Int : q = t + kq * Modulus
      BY <2>1, <2>3, UnsignedShift
  <2>8. PICK kr \in Int : r = s + kr * Modulus
      BY <2>1, <2>3, UnsignedShift
  <2>9. s = N - D * t
      OBVIOUS
  <2> DEFINE k == kq * d + kr + kn - kd * t
  <2> HIDE DEF q, r, s, t, N, D
  <2>10. k \in Int
      BY <1>1, <2>3
  <2>11. q * d + r = n + k * Modulus
    <3>1. q * d = t * d + (kq * d) * Modulus
        BY <1>1, <2>3, <2>7, Z3T(20)
    <3>2. s = n + kn * Modulus - (d * t + (kd * t) * Modulus)
        BY <1>1, <2>2, <2>3, <2>5, <2>6, <2>9, Z3T(20)
    <3>3. k * Modulus = (kq * d) * Modulus + kr * Modulus + kn * Modulus - (kd * t) * Modulus
        BY <1>1, <2>3, Z3T(20)
    <3>4. d * t = t * d
        BY <1>1, <2>3, Z3T(20)
    <3> HIDE DEF k
    <3> QED BY <1>1, <2>3, <2>4, <2>8, <2>10, <3>1, <3>2, <3>3, <3>4, Z3T(20) DEF Word
  <2> HIDE DEF k
  <2>12. (q * d + r) % Modulus = n
      BY <2>10, <2>11, ShiftedWord
  <2>13. 2 * s < Modulus /\ -Modulus <= 2 * s
      BY <1>1, <2>2, <2>3 DEF Magnitude
  <2>14. Signed(r) = s
      BY <2>1, <2>3, <2>13, SignedOfUnsigned
  <2>15. r # 0 => s # 0
      BY <2>4, <2>14, SignedShift
  <2> QED BY <1>4, <2>3, <2>4, <2>12, <2>14, <2>15 DEF Exact, q, r, N, D
<1> QED BY <1>2, <1>3, <1>4

-----------------------------------------------------------------------------
(* Types *)

\* Where a call has begun, it is still the first of its program.
CallsBegun == \A core \in Core : at[core] \in Guarded \cup {"take"} => calls[core] # << >>

\* Core 1 is not inside multicore_launch_core1.
Core1Label == at[1] \notin {"launch", "ack", "lastack"}

TypeInv == PicoTypeOK /\ CallsBegun /\ Core1Label

LEMMA AppendTypes == \A S : \A s \in Seq(S), e \in S : Append(s, e) \in Seq(S)
    OBVIOUS

LEMMA TailTypes ==
    \A S : \A s \in Seq(S) : s # << >> =>
        /\ Head(s) \in S /\ Tail(s) \in Seq(S)
        /\ Len(Tail(s)) = Len(s) - 1
        /\ Head(s) = s[1]
        /\ \A i \in 1..(Len(s) - 1) : Tail(s)[i] = s[i + 1]
    OBVIOUS

LEMMA FifoReadTypes ==
    ASSUME SioTypes, NEW core \in Core, FifoRead(core)
    PROVE  /\ inbound' \in [Core -> Seq(Word)]
           /\ fifoError' \in [Core -> SUBSET {"WOF", "ROE"}]
           /\ UNCHANGED <<launchSequence, pendingLaunch, core1Launched>>
           /\ ReadValue(core) \in Word
<1>1. inbound[core] \in Seq(Word)
    BY DEF SioTypes
<1>2. inbound[core] # << >> => Head(inbound[core]) \in Word /\ Tail(inbound[core]) \in Seq(Word)
    BY <1>1
<1>3. 0 \in Word
    BY ModulusAssumption DEF Word
<1>4. ReadValue(core) \in Word
    BY <1>2, <1>3 DEF ReadValue, Valid
<1> QED BY <1>2, <1>4 DEF SioTypes, FifoRead, Valid

LEMMA LaunchWordsTypes ==
    /\ LaunchWords \in Seq(Word) /\ Len(LaunchWords) = 6
    /\ \A i \in 1..6 : LaunchWords[i] \in Word
<1>1. 0 \in Word /\ 1 \in Word
    BY ModulusAssumption DEF Word
<1> QED BY <1>1, LaunchWordsAssumption DEF LaunchWords

LEMMA FifoWriteTypes ==
    ASSUME SioTypes, NEW core \in Core, NEW word \in Word, FifoWrite(core, word)
    PROVE  /\ inbound' \in [Core -> Seq(Word)]
           /\ fifoError' \in [Core -> SUBSET {"WOF", "ROE"}]
           /\ launchSequence' \in Seq(Word)
           /\ pendingLaunch' \in Launch \cup {NoLaunch}
           /\ core1Launched' \in BOOLEAN
<1>0. Other(core) \in Core /\ 0 \in Core
    BY DEF Other, Core
<1>1. CASE ~HasRoom(core) /\ WriteOverflow(core)
    BY <1>1 DEF WriteOverflow, SioTypes
<1>2. CASE core = 0 /\ ~core1Launched /\ WriteToRom(word)
  <2> DEFINE window == Slide(launchSequence, word)
  <2>1. /\ launchSequence \in Seq(Word)
        /\ Len(launchSequence) = 6 => Tail(launchSequence) \in Seq(Word)
    <3>1. launchSequence \in Seq(Word)
        BY DEF SioTypes
    <3>2. Len(launchSequence) = 6 => launchSequence # << >>
        BY <3>1
    <3> QED BY <3>1, <3>2, TailTypes
  <2>2. window \in Seq(Word)
      BY <2>1, AppendTypes DEF Slide
  <2>3. inbound' \in [Core -> Seq(Word)] /\ fifoError' = fifoError
      BY <1>0, <1>2 DEF WriteToRom, SioTypes
  <2> HIDE DEF window
  <2>4. IsLaunch(window) => window[4] \in Word /\ window[5] \in Word /\ window[6] \in Word
      BY <2>2 DEF IsLaunch
  <2>5. \/ /\ IsLaunch(window)
           /\ pendingLaunch' = [vector |-> window[4], stack |-> window[5], entry |-> window[6]]
           /\ core1Launched' = TRUE
           /\ launchSequence' = << >>
        \/ launchSequence' = window /\ UNCHANGED <<pendingLaunch, core1Launched>>
      BY <1>2 DEF WriteToRom, window
  <2>6. core1Launched' \in BOOLEAN
      BY <2>5 DEF SioTypes
  <2>7. launchSequence' \in Seq(Word)
    <3>1. << >> \in Seq(Word)
        OBVIOUS
    <3> QED BY <2>2, <2>5, <3>1
  <2>8. IsLaunch(window) => [vector |-> window[4], stack |-> window[5], entry |-> window[6]] \in Launch
      BY <2>4 DEF Launch
  <2>9. pendingLaunch \in Launch \cup {NoLaunch}
      BY DEF SioTypes
  <2>10. pendingLaunch' \in Launch \cup {NoLaunch}
      BY <2>5, <2>8, <2>9
  <2> QED BY <2>3, <2>6, <2>7, <2>10 DEF SioTypes
<1>3. CASE WriteToCore(core, word)
    BY <1>0, <1>3 DEF WriteToCore, SioTypes
<1> QED BY <1>1, <1>2, <1>3 DEF FifoWrite

LEMMA CallTypes ==
    ASSUME TypeInv, NEW core \in Core, calls[core] # << >>
    PROVE  /\ Head(calls[core]) \in Call
           /\ Tail(calls[core]) \in Seq(Call)
           /\ Head(calls[core]).op = "push" => Head(calls[core]).word \in Word
<1>1. calls[core] \in Seq(Call)
    BY DEF TypeInv, PicoTypeOK
<1>2. Head(calls[core]) \in Call /\ Tail(calls[core]) \in Seq(Call)
    BY <1>1
<1> QED BY <1>2 DEF Call

LEMMA TypesInit == PicoInit => TypeInv
<1> SUFFICES ASSUME PicoInit PROVE TypeInv
    OBVIOUS
<1>1. 0 \in Word
    BY ModulusAssumption DEF Word
<1>2. SioTypes
    BY <1>1 DEF PicoInit, SioInit, SioTypes, Core
<1>3. calls \in [Core -> Seq(Call)]
    BY ProgramsAssumption DEF PicoInit
<1>4. at \in [Core -> Label] /\ at[0] = "launch" /\ at[1] = "next"
    BY DEF PicoInit, Core, Label
<1>5. /\ index \in 1..6 /\ cpu1 \in Launch \cup {NoLaunch}
      /\ drained \in Seq(Word) /\ pushed \in [Core -> Seq(Word)] /\ popped \in [Core -> Seq(Word)]
      /\ cleared \in [Core -> BOOLEAN] /\ results \in SUBSET Result
    BY DEF PicoInit
<1>6. operation \in [Core -> Operation]
    BY <1>1 DEF PicoInit, Operation
<1> QED BY <1>2, <1>3, <1>4, <1>5, <1>6 DEF TypeInv, PicoTypeOK, CallsBegun, Core1Label, Core, Guarded

\* What the actions do to the program of a core, as types.
LEMMA ReturnTypes ==
    ASSUME TypeInv, NEW core \in Core, calls[core] # << >>, Return(core)
    PROVE  at' \in [Core -> Label] /\ calls' \in [Core -> Seq(Call)] /\ CallsBegun' /\ Core1Label'
<1>1. Tail(calls[core]) \in Seq(Call)
    BY CallTypes
<1>2. at' \in [Core -> Label] /\ calls' \in [Core -> Seq(Call)]
    BY <1>1 DEF TypeInv, PicoTypeOK, Return, Goto, Label
<1>3. \A c \in Core : c # core => at'[c] = at[c] /\ calls'[c] = calls[c]
    BY DEF TypeInv, PicoTypeOK, Return, Goto
<1>4. at'[core] = "next"
    BY DEF TypeInv, PicoTypeOK, Return, Goto
<1> QED BY <1>2, <1>3, <1>4 DEF TypeInv, CallsBegun, Core1Label, Guarded, Core

LEMMA GotoTypes ==
    ASSUME TypeInv, NEW core \in Core, NEW label \in Label, Goto(core, label), UNCHANGED calls,
           label \in Guarded \cup {"take"} => calls[core] # << >>,
           core = 1 => label \notin {"launch", "ack", "lastack"}
    PROVE  at' \in [Core -> Label] /\ calls' \in [Core -> Seq(Call)] /\ CallsBegun' /\ Core1Label'
<1>1. at' \in [Core -> Label] /\ at'[core] = label /\ calls' \in [Core -> Seq(Call)]
    BY DEF TypeInv, PicoTypeOK, Goto
<1>2. \A c \in Core : c # core => at'[c] = at[c]
    BY DEF TypeInv, PicoTypeOK, Goto
<1> QED BY <1>1, <1>2 DEF TypeInv, CallsBegun, Core1Label, Core

LEMMA TypesStep == TypeInv /\ [PicoNext]_pico_vars => TypeInv'
<1> SUFFICES ASSUME TypeInv, [PicoNext]_pico_vars PROVE TypeInv'
    OBVIOUS
<1> USE DEF TypeInv
<1>0. 0 \in Core /\ SioTypes /\ index \in 1..6
    BY DEF PicoTypeOK, Core
<1>1. CASE LaunchWrite
  <2>1. LaunchWords[index] \in Word
      BY <1>0, LaunchWordsTypes
  <2>2. SioTypes'
      BY <1>0, <1>1, <2>1, FifoWriteTypes DEF LaunchWrite, SioTypes
  <2>3. at' \in [Core -> Label] /\ calls' \in [Core -> Seq(Call)] /\ CallsBegun' /\ Core1Label'
      BY <1>0, <1>1, GotoTypes DEF LaunchWrite, Label, Guarded
  <2> QED BY <1>1, <2>2, <2>3 DEF PicoTypeOK, LaunchWrite
<1>2. CASE LaunchAck
  <2>1. SioTypes' /\ ReadValue(0) \in Word
      BY <1>0, <1>2, FifoReadTypes DEF LaunchAck, SioTypes
  <2>2. at' \in [Core -> Label] /\ calls' \in [Core -> Seq(Call)] /\ CallsBegun' /\ Core1Label'
      BY <1>0, <1>2, GotoTypes DEF LaunchAck, Label, Guarded
  <2>3. drained' \in Seq(Word)
      BY <1>2, <2>1, AppendTypes DEF LaunchAck, PicoTypeOK
  <2>4. index' \in 1..6
      BY <1>0, <1>2 DEF LaunchAck
  <2> QED BY <1>2, <2>1, <2>2, <2>3, <2>4 DEF PicoTypeOK, LaunchAck
<1>3. CASE LaunchLastAck
  <2>1. SioTypes' /\ ReadValue(0) \in Word
      BY <1>0, <1>3, FifoReadTypes DEF LaunchLastAck, SioTypes
  <2>2. at' \in [Core -> Label] /\ calls' \in [Core -> Seq(Call)] /\ CallsBegun' /\ Core1Label'
      BY <1>0, <1>3, GotoTypes DEF LaunchLastAck, Label, Guarded
  <2>3. drained' \in Seq(Word)
      BY <1>3, <2>1, AppendTypes DEF LaunchLastAck, PicoTypeOK
  <2> QED BY <1>3, <2>1, <2>2, <2>3 DEF PicoTypeOK, LaunchLastAck
<1>4. CASE StartCore1
    BY <1>4 DEF StartCore1, TakeCore1Launch, PicoTypeOK, SioTypes, CallsBegun, Core1Label
<1>5. ASSUME NEW core \in Core, Push(core) PROVE TypeInv'
  <2>1. calls[core] # << >> /\ Head(calls[core]).word \in Word
      BY <1>5, CallTypes DEF Push, Calling
  <2>2. SioTypes'
      BY <1>0, <1>5, <2>1, FifoWriteTypes DEF Push, SioTypes
  <2>3. at' \in [Core -> Label] /\ calls' \in [Core -> Seq(Call)] /\ CallsBegun' /\ Core1Label'
      BY <1>5, <2>1, ReturnTypes DEF Push
  <2>4. pushed' \in [Core -> Seq(Word)]
      BY <1>5, <2>1, AppendTypes DEF Push, PicoTypeOK
  <2> QED BY <1>5, <2>2, <2>3, <2>4 DEF PicoTypeOK, Push
<1>6. ASSUME NEW core \in Core, PopPoll(core) PROVE TypeInv'
  <2>1. at' \in [Core -> Label] /\ calls' \in [Core -> Seq(Call)] /\ CallsBegun' /\ Core1Label'
      BY <1>6, GotoTypes DEF PopPoll, Calling, Label
  <2> QED BY <1>6, <2>1 DEF PicoTypeOK, PopPoll, SioTypes, sio_vars, fifo_vars
<1>7. ASSUME NEW core \in Core, PopTake(core) PROVE TypeInv'
  <2>1. SioTypes' /\ ReadValue(core) \in Word
      BY <1>0, <1>7, FifoReadTypes DEF PopTake, SioTypes
  <2>2. at' \in [Core -> Label] /\ calls' \in [Core -> Seq(Call)] /\ CallsBegun' /\ Core1Label'
      BY <1>7, ReturnTypes DEF PopTake, CallsBegun
  <2>3. popped' \in [Core -> Seq(Word)]
      BY <1>7, <2>1, AppendTypes DEF PopTake, PicoTypeOK
  <2> QED BY <1>7, <2>1, <2>2, <2>3 DEF PicoTypeOK, PopTake
<1>8. ASSUME NEW core \in Core, ReadUnpolled(core) PROVE TypeInv'
  <2>1. SioTypes' /\ ReadValue(core) \in Word
      BY <1>0, <1>8, FifoReadTypes DEF ReadUnpolled, SioTypes
  <2>2. at' \in [Core -> Label] /\ calls' \in [Core -> Seq(Call)] /\ CallsBegun' /\ Core1Label'
      BY <1>8, ReturnTypes DEF ReadUnpolled, Calling
  <2>3. popped' \in [Core -> Seq(Word)]
      BY <1>8, <2>1, AppendTypes DEF ReadUnpolled, PicoTypeOK
  <2> QED BY <1>8, <2>1, <2>2, <2>3 DEF PicoTypeOK, ReadUnpolled
<1>9. ASSUME NEW core \in Core, ClearErrors(core) PROVE TypeInv'
  <2>1. SioTypes'
      BY <1>0, <1>9 DEF ClearErrors, FifoClear, SioTypes
  <2>2. at' \in [Core -> Label] /\ calls' \in [Core -> Seq(Call)] /\ CallsBegun' /\ Core1Label'
      BY <1>9, ReturnTypes DEF ClearErrors, Calling
  <2>3. cleared' \in [Core -> BOOLEAN]
      BY <1>9 DEF ClearErrors, PicoTypeOK
  <2> QED BY <1>9, <2>1, <2>2, <2>3 DEF PicoTypeOK, ClearErrors
<1>10. ASSUME NEW core \in Core, AcquireLock(core) PROVE TypeInv'
  <2>1. SioTypes'
      BY <1>0, <1>10 DEF AcquireLock, SpinAcquire, SioTypes, fifo_vars
  <2>2. at' \in [Core -> Label] /\ calls' \in [Core -> Seq(Call)] /\ CallsBegun' /\ Core1Label'
      BY <1>10, GotoTypes DEF AcquireLock, Calling, Label
  <2>3. operation' \in [Core -> Operation]
      BY <1>10, OperandAssumption, ModulusAssumption DEF AcquireLock, PicoTypeOK, Operation, Word
  <2> QED BY <1>10, <2>1, <2>2, <2>3 DEF PicoTypeOK, AcquireLock
<1>11. ASSUME NEW core \in Core, GiveDividend(core) PROVE TypeInv'
  <2>1. SioTypes'
      BY <1>0, <1>11 DEF GiveDividend, WriteDividend, PicoTypeOK, SioTypes, fifo_vars, Operation
  <2>2. at' \in [Core -> Label] /\ calls' \in [Core -> Seq(Call)] /\ CallsBegun' /\ Core1Label'
      BY <1>11, GotoTypes DEF GiveDividend, Label, CallsBegun, Guarded
  <2> QED BY <1>11, <2>1, <2>2 DEF PicoTypeOK, GiveDividend
<1>12. ASSUME NEW core \in Core, GiveDivisor(core) PROVE TypeInv'
  <2>1. operation[core].d \in Word /\ operation[core].signed \in BOOLEAN /\ divider.dividend \in Word
      BY <1>0 DEF PicoTypeOK, SioTypes, Operation
  <2>2. /\ Quotient(divider.dividend, operation[core].d, operation[core].signed) \in Word
        /\ Remainder(divider.dividend, operation[core].d, operation[core].signed) \in Word
      BY <2>1, DivisionExact DEF Exact
  <2>3. SioTypes'
      BY <1>0, <1>12, <2>2 DEF GiveDivisor, WriteDivisor, SioTypes, fifo_vars
  <2>4. at' \in [Core -> Label] /\ calls' \in [Core -> Seq(Call)] /\ CallsBegun' /\ Core1Label'
      BY <1>12, GotoTypes DEF GiveDivisor, Label, CallsBegun, Guarded
  <2> QED BY <1>12, <2>3, <2>4 DEF PicoTypeOK, GiveDivisor
<1>13. ASSUME NEW core \in Core, ReadQuotient(core) PROVE TypeInv'
  <2>1. SioTypes'
      BY <1>0, <1>13 DEF ReadQuotient, SioTypes, fifo_vars, sio_vars
  <2>2. at' \in [Core -> Label] /\ calls' \in [Core -> Seq(Call)] /\ CallsBegun' /\ Core1Label'
      BY <1>13, GotoTypes DEF ReadQuotient, Label, CallsBegun, Guarded
  <2>3. operation' \in [Core -> Operation]
      BY <1>0, <1>13 DEF ReadQuotient, PicoTypeOK, Operation, SioTypes
  <2> QED BY <1>13, <2>1, <2>2, <2>3 DEF PicoTypeOK, ReadQuotient
<1>14. ASSUME NEW core \in Core, ReadRemainder(core) PROVE TypeInv'
  <2>1. SioTypes'
      BY <1>0, <1>14 DEF ReadRemainder, SioTypes, fifo_vars, sio_vars
  <2>2. at' \in [Core -> Label] /\ calls' \in [Core -> Seq(Call)] /\ CallsBegun' /\ Core1Label'
      BY <1>14, GotoTypes DEF ReadRemainder, Label, CallsBegun, Guarded
  <2>3. results' \in SUBSET Result
      BY <1>0, <1>14 DEF ReadRemainder, PicoTypeOK, Operation, SioTypes, Result
  <2> QED BY <1>14, <2>1, <2>2, <2>3 DEF PicoTypeOK, ReadRemainder
<1>15. ASSUME NEW core \in Core, ReleaseLock(core) PROVE TypeInv'
  <2>1. SioTypes'
      BY <1>0, <1>15, DivLockAssumption DEF ReleaseLock, SpinRelease, SioTypes, fifo_vars
  <2>2. at' \in [Core -> Label] /\ calls' \in [Core -> Seq(Call)] /\ CallsBegun' /\ Core1Label'
      BY <1>15, ReturnTypes DEF ReleaseLock, CallsBegun, Guarded
  <2> QED BY <1>15, <2>1, <2>2 DEF PicoTypeOK, ReleaseLock
<1>16. CASE UNCHANGED pico_vars
    BY <1>16 DEF pico_vars, sio_vars, fifo_vars, PicoTypeOK, SioTypes, CallsBegun, Core1Label
<1> QED
    BY <1>1, <1>2, <1>3, <1>4, <1>5, <1>6, <1>7, <1>8, <1>9, <1>10, <1>11, <1>12, <1>13, <1>14,
       <1>15, <1>16 DEF PicoNext, Core0Access, Access

-----------------------------------------------------------------------------
(* The launch handshake *)

Sent == <<0, 0, 0, 1, Vector, Stack, Entry>>

Launching == [vector |-> Vector, stack |-> Stack, entry |-> Entry]

\* The protocol words in the FIFO of core 0.
Protocol == IF at[0] = "ack" THEN 2 ELSE IF at[0] \in {"launch", "lastack"} THEN 1 ELSE 0

Progress ==
    /\ at[0] \in {"launch", "ack"} => Len(drained) = index - 1
    /\ at[0] = "lastack" => Len(drained) = 6 /\ index = 6
    /\ LaunchReturned => Len(drained) = 7 /\ index = 6

DrainedInOrder == \A i \in 1..Len(drained) : drained[i] = Sent[i]

ProtocolFirst ==
    /\ Protocol <= Len(inbound[0])
    /\ \A i \in 1..Protocol : inbound[0][i] = Sent[Len(drained) + i]
    /\ LaunchReturned \/ "ROE" \notin fifoError[0]

BeforeLaunch ==
    ~core1Launched =>
        /\ at[0] = "launch" \/ (at[0] = "ack" /\ index < 6)
        /\ at[1] = "next" /\ cpu1 = NoLaunch /\ pendingLaunch = NoLaunch
        /\ inbound[1] = << >> /\ Len(inbound[0]) = Protocol
        /\ Len(launchSequence) = IF at[0] = "launch" THEN index - 1 ELSE index
        /\ \A i \in 1..Len(launchSequence) : launchSequence[i] = LaunchWords[i]

AfterLaunch ==
    /\ core1Launched => index = 6 /\ at[0] # "launch"
    /\ pendingLaunch # NoLaunch => pendingLaunch = Launching
    /\ cpu1 # NoLaunch => cpu1 = Launching

HandshakeInv ==
    /\ Progress /\ DrainedInOrder /\ ProtocolFirst /\ BeforeLaunch /\ AfterLaunch
    /\ FifoWithinDepth

LEMMA SentIs ==
    Sent = <<0>> \o LaunchWords /\ Len(Sent) = 7 /\ \A i \in 1..6 : Sent[i + 1] = LaunchWords[i]
    BY DEF Sent, LaunchWords

LEMMA FirstThree ==
    \A S : \A s \in Seq(S) : Len(s) = 6 => SubSeq(s, 1, 3) = <<s[1], s[2], s[3]>>
<1> SUFFICES ASSUME NEW S, NEW s \in Seq(S), Len(s) = 6
             PROVE  SubSeq(s, 1, 3) = <<s[1], s[2], s[3]>>
    OBVIOUS
<1>1. /\ SubSeq(s, 1, 3) \in Seq(S) /\ Len(SubSeq(s, 1, 3)) = 3
      /\ \A i \in 1..3 : SubSeq(s, 1, 3)[i] = s[i]
    OBVIOUS
<1>2. <<s[1], s[2], s[3]>> \in Seq(S)
    OBVIOUS
<1> DEFINE t == <<s[1], s[2], s[3]>>
<1>3. Len(t) = 3 /\ \A i \in 1..3 : t[i] = s[i]
    OBVIOUS
<1> HIDE DEF t
<1>4. \A i \in 1..3 : SubSeq(s, 1, 3)[i] = t[i]
    BY <1>1, <1>3
<1>5. SubSeq(s, 1, 3) = t
    BY <1>1, <1>2, <1>3, <1>4, SeqEqual DEF t
<1> QED BY <1>5 DEF t

LEMMA HandshakeInit == PicoInit => HandshakeInv
<1> SUFFICES ASSUME PicoInit PROVE HandshakeInv
    OBVIOUS
<1>1. at[0] = "launch" /\ at[1] = "next" /\ index = 1 /\ drained = << >> /\ cpu1 = NoLaunch
    BY DEF PicoInit, Core
<1>2. /\ inbound[0] = <<0>> /\ inbound[1] = << >> /\ fifoError[0] = {}
      /\ launchSequence = << >> /\ pendingLaunch = NoLaunch /\ core1Launched = FALSE
    BY DEF PicoInit, SioInit, Core
<1>3. Protocol = 1 /\ ~LaunchReturned
    BY <1>1 DEF Protocol, LaunchReturned
<1>4. Progress /\ DrainedInOrder
    BY <1>1, <1>3 DEF Progress, DrainedInOrder
<1>5. ProtocolFirst
    BY <1>1, <1>2, <1>3 DEF ProtocolFirst, Sent
<1>6. BeforeLaunch /\ AfterLaunch
    BY <1>1, <1>2, <1>3 DEF BeforeLaunch, AfterLaunch
<1>7. FifoWithinDepth
  <2>1. Len(inbound[0]) = 1 /\ Len(inbound[1]) = 0
      BY <1>2
  <2>2. 0 <= Depth /\ 1 <= Depth
      BY DepthAssumption
  <2> QED BY <2>1, <2>2 DEF FifoWithinDepth, Core
<1> QED BY <1>4, <1>5, <1>6, <1>7 DEF HandshakeInv

LEMMA HandshakeWrite ==
    ASSUME TypeInv, HandshakeInv, LaunchWrite PROVE HandshakeInv'
<1> USE DEF HandshakeInv
<1>1. /\ at[0] = "launch" /\ ~core1Launched /\ ~LaunchReturned /\ Protocol = 1
      /\ Len(drained) = index - 1 /\ index \in 1..6
    BY DEF LaunchWrite, AfterLaunch, LaunchReturned, Protocol, TypeInv, PicoTypeOK, SioTypes, Progress
<1>2. /\ at' = [at EXCEPT ![0] = "ack"] /\ at'[0] = "ack" /\ at'[1] = at[1]
      /\ ~LaunchReturned' /\ Protocol' = 2
    BY DEF LaunchWrite, Goto, TypeInv, PicoTypeOK, Core, LaunchReturned, Protocol
<1>3. HasRoom(0) /\ WriteToRom(LaunchWords[index])
    BY <1>1, DepthAssumption DEF LaunchWrite, FifoWrite, HasRoom, BeforeLaunch, Other, Core
<1>4. /\ inbound[0] \in Seq(Word) /\ LaunchWords[index] \in Word /\ launchSequence \in Seq(Word)
      /\ Len(inbound[0]) = 1 /\ inbound[1] = << >> /\ inbound[0][1] = Sent[index]
  <2>1. inbound[0] \in Seq(Word) /\ launchSequence \in Seq(Word)
      BY DEF TypeInv, PicoTypeOK, SioTypes, Core
  <2>2. LaunchWords[index] \in Word
      BY <1>1, LaunchWordsTypes
  <2>3. Len(inbound[0]) = 1 /\ inbound[1] = << >>
      BY <1>1 DEF BeforeLaunch
  <2>4. inbound[0][1] = Sent[Len(drained) + 1] /\ Len(drained) + 1 = index
      BY <1>1 DEF ProtocolFirst
  <2> QED BY <2>1, <2>2, <2>3, <2>4
<1>5. /\ inbound'[0] = Append(inbound[0], LaunchWords[index]) /\ inbound'[1] = inbound[1]
      /\ fifoError' = fifoError
    BY <1>3 DEF WriteToRom, TypeInv, PicoTypeOK, SioTypes, Core
<1>6. Len(inbound'[0]) = 2 /\ inbound'[0][1] = Sent[index] /\ inbound'[0][2] = Sent[index + 1]
  <2>1. /\ Len(inbound'[0]) = 2 /\ inbound'[0][1] = inbound[0][1]
        /\ inbound'[0][2] = LaunchWords[index]
      BY <1>4, <1>5
  <2> QED BY <1>1, <1>4, <2>1, SentIs
<1>7. UNCHANGED <<index, drained, cpu1>>
    BY DEF LaunchWrite
<1>8. Progress' /\ DrainedInOrder'
    BY <1>1, <1>2, <1>7 DEF Progress, DrainedInOrder
<1>9. ProtocolFirst'
    BY <1>1, <1>2, <1>5, <1>6, <1>7 DEF ProtocolFirst
<1>10. FifoWithinDepth'
    BY <1>4, <1>5, <1>6, DepthAssumption DEF FifoWithinDepth, Core
<1> DEFINE window == Slide(launchSequence, LaunchWords[index])
<1>11. window = Append(launchSequence, LaunchWords[index])
  <2>1. Len(launchSequence) = index - 1
      BY <1>1 DEF BeforeLaunch
  <2>2. Len(launchSequence) # 6
      BY <1>1, <2>1
  <2> QED BY <2>2 DEF Slide
<1>12. Len(window) = index /\ \A i \in 1..index : window[i] = LaunchWords[i]
    BY <1>1, <1>4, <1>11 DEF BeforeLaunch
<1>13. window \in Seq(Word)
    BY <1>4, <1>11, AppendTypes
<1>14. \/ /\ IsLaunch(window)
          /\ pendingLaunch' = [vector |-> window[4], stack |-> window[5], entry |-> window[6]]
          /\ core1Launched' = TRUE
          /\ launchSequence' = << >>
       \/ /\ ~IsLaunch(window)
          /\ launchSequence' = window
          /\ UNCHANGED <<pendingLaunch, core1Launched>>
    BY <1>3 DEF WriteToRom
<1> HIDE DEF window
<1>15. CASE index = 6
  <2>1. SubSeq(window, 1, 3) = <<0, 0, 1>>
    <3>1. window[1] = 0 /\ window[2] = 0 /\ window[3] = 1
        BY <1>12, <1>15 DEF LaunchWords
    <3> QED BY <1>12, <1>13, <1>15, <3>1, FirstThree
  <2>2. IsLaunch(window)
      BY <1>12, <1>15, <2>1 DEF IsLaunch
  <2>3. core1Launched' /\ pendingLaunch' = Launching
      BY <1>12, <1>14, <1>15, <2>2 DEF LaunchWords, Launching
  <2> QED BY <1>1, <1>2, <1>7, <1>8, <1>9, <1>10, <1>15, <2>3 DEF BeforeLaunch, AfterLaunch
<1>16. CASE index < 6
  <2>1. ~IsLaunch(window)
      BY <1>12, <1>16 DEF IsLaunch
  <2>2. launchSequence' = window /\ pendingLaunch' = pendingLaunch /\ core1Launched' = core1Launched
      BY <1>14, <2>1
  <2> QED BY <1>1, <1>2, <1>4, <1>5, <1>6, <1>7, <1>8, <1>9, <1>10, <1>12, <1>16, <2>2
          DEF BeforeLaunch, AfterLaunch
<1> QED BY <1>1, <1>15, <1>16

\* A read of core 0 inside multicore_launch_core1 takes a protocol word.
LEMMA HandshakeRead ==
    ASSUME TypeInv, HandshakeInv, LaunchAck \/ LaunchLastAck PROVE HandshakeInv'
<1> USE DEF HandshakeInv
<1>1. /\ at[0] \in {"ack", "lastack"} /\ Protocol >= 1 /\ Protocol \in Nat
      /\ ~LaunchReturned /\ index \in 1..6
    BY DEF LaunchAck, LaunchLastAck, Protocol, LaunchReturned, TypeInv, PicoTypeOK
<1>2. inbound[0] \in Seq(Word) /\ inbound[0] # << >> /\ drained \in Seq(Word) /\ 0 \in Core /\ 1 \in Core
    BY <1>1 DEF TypeInv, PicoTypeOK, SioTypes, Core, ProtocolFirst
<1>3. FifoRead(0) /\ drained' = Append(drained, ReadValue(0)) /\ cpu1' = cpu1
    BY DEF LaunchAck, LaunchLastAck
<1>4. /\ inbound' = [inbound EXCEPT ![0] = Tail(@)] /\ ReadValue(0) = Head(inbound[0])
      /\ UNCHANGED <<fifoError, launchSequence, pendingLaunch, core1Launched>>
    BY <1>2, <1>3 DEF FifoRead, ReadValue, Valid
<1>5. inbound'[0] = Tail(inbound[0]) /\ inbound'[1] = inbound[1]
    BY <1>2, <1>4 DEF TypeInv, PicoTypeOK, SioTypes
<1>6. /\ Len(inbound'[0]) = Len(inbound[0]) - 1
      /\ \A i \in 1..(Len(inbound[0]) - 1) : inbound'[0][i] = inbound[0][i + 1]
    BY <1>2, <1>5, TailTypes
<1>7. ReadValue(0) = Sent[Len(drained) + 1] /\ ReadValue(0) \in Word
    BY <1>1, <1>2, <1>4, TailTypes DEF ProtocolFirst
<1>8. Len(drained') = Len(drained) + 1 /\ \A i \in 1..Len(drained') : drained'[i] = Sent[i]
    BY <1>2, <1>3, <1>7 DEF DrainedInOrder
<1>9. /\ at'[1] = at[1] /\ Protocol' = Protocol - 1
      /\ at[0] = "ack" /\ index < 6 => at'[0] = "launch" /\ index' = index + 1
      /\ at[0] = "ack" /\ index = 6 => at'[0] = "lastack" /\ index' = index
      /\ at[0] = "lastack" => at'[0] = "next" /\ index' = index
    BY <1>1, <1>2 DEF LaunchAck, LaunchLastAck, Goto, TypeInv, PicoTypeOK, Protocol
<1>10. Progress'
  <2>1. CASE at[0] = "ack" /\ index < 6
      BY <1>1, <1>2, <1>8, <1>9, <2>1 DEF Progress, LaunchReturned
  <2>2. CASE at[0] = "ack" /\ index = 6
    <3>1. Len(drained) = 5 /\ at'[0] = "lastack" /\ index' = 6
        BY <1>9, <2>2 DEF Progress
    <3> QED BY <1>8, <3>1 DEF Progress, LaunchReturned
  <2>3. CASE at[0] = "lastack"
    <3>1. Len(drained) = 6 /\ at'[0] = "next" /\ index' = 6
        BY <1>9, <2>3 DEF Progress
    <3> QED BY <1>8, <3>1 DEF Progress, LaunchReturned
  <2> QED BY <1>1, <2>1, <2>2, <2>3
<1>11. DrainedInOrder'
    BY <1>8 DEF DrainedInOrder
<1>12. ProtocolFirst'
    BY <1>1, <1>2, <1>4, <1>6, <1>8, <1>9 DEF ProtocolFirst
<1>13. BeforeLaunch'
    BY <1>1, <1>2, <1>4, <1>5, <1>6, <1>9, <1>3 DEF BeforeLaunch
<1>14. AfterLaunch'
    BY <1>1, <1>3, <1>4, <1>9 DEF AfterLaunch, BeforeLaunch
<1>15. FifoWithinDepth'
  <2>1. Len(inbound'[0]) <= Depth
      BY <1>2, <1>6, DepthAssumption DEF FifoWithinDepth
  <2>2. Len(inbound'[1]) <= Depth
      BY <1>2, <1>5 DEF FifoWithinDepth
  <2> QED BY <2>1, <2>2 DEF FifoWithinDepth, Core
<1> QED BY <1>10, <1>11, <1>12, <1>13, <1>14, <1>15

-----------------------------------------------------------------------------
(* What an access of a program does to the FIFOs *)

\* Nothing.
FifoIdle == UNCHANGED <<inbound, fifoError, pushed, popped, cleared>>

\* A word is pushed into a full FIFO.
FifoLost(core) ==
    /\ fifoError' = [fifoError EXCEPT ![core] = @ \cup {"WOF"}]
    /\ \E word \in Word : pushed' = [pushed EXCEPT ![core] = Append(@, word)]
    /\ UNCHANGED <<inbound, popped, cleared>>

\* A word is pushed into a FIFO with room.
FifoSent(core) ==
    /\ HasRoom(core)
    /\ \E word \in Word :
          /\ inbound' = [inbound EXCEPT ![Other(core)] = Append(@, word)]
          /\ pushed' = [pushed EXCEPT ![core] = Append(@, word)]
    /\ UNCHANGED <<fifoError, popped, cleared>>

\* The oldest word is taken.
FifoTaken(core) ==
    /\ inbound[core] # << >>
    /\ inbound' = [inbound EXCEPT ![core] = Tail(@)]
    /\ popped' = [popped EXCEPT ![core] = Append(@, Head(inbound[core]))]
    /\ UNCHANGED <<fifoError, pushed, cleared>>

\* An empty FIFO is read.
FifoEmpty(core) ==
    /\ fifoError' = [fifoError EXCEPT ![core] = @ \cup {"ROE"}]
    /\ UNCHANGED <<inbound, pushed, popped, cleared>>

\* The sticky bits are cleared.
FifoCleared(core) ==
    /\ fifoError' = [fifoError EXCEPT ![core] = @ \ {"WOF", "ROE"}]
    /\ cleared' = [cleared EXCEPT ![core] = TRUE]
    /\ UNCHANGED <<inbound, pushed, popped>>

FifoEffect(core) ==
    \/ FifoIdle \/ FifoLost(core) \/ FifoSent(core) \/ FifoTaken(core)
    \/ FifoEmpty(core) \/ FifoCleared(core)

\* A poll that succeeded still holds when the word is taken: only the core
\* itself takes from its FIFO.
TakeHasWord == \A core \in Core : at[core] = "take" => inbound[core] # << >>

\* A core that runs a program runs after the launch.
LEMMA AccessAfterLaunch ==
    ASSUME TypeInv, HandshakeInv, NEW core \in Core, Access(core)
    PROVE  /\ core1Launched
           /\ at[core] \notin {"launch", "ack", "lastack"}
<1>1. at[core] \notin {"launch", "ack", "lastack"}
    BY DEF Access, Push, PopPoll, PopTake, ReadUnpolled, ClearErrors, AcquireLock, GiveDividend,
           GiveDivisor, ReadQuotient, ReadRemainder, ReleaseLock, Calling
<1>2. core = 1 => at[1] # "next" \/ cpu1 # NoLaunch
    BY DEF Access, Push, PopPoll, PopTake, ReadUnpolled, ClearErrors, AcquireLock, GiveDividend,
           GiveDivisor, ReadQuotient, ReadRemainder, ReleaseLock, Calling, Running
<1>3. core1Launched
    BY <1>1, <1>2 DEF HandshakeInv, BeforeLaunch, Core
<1> QED BY <1>1, <1>3

LEMMA AccessEffect ==
    ASSUME TypeInv, HandshakeInv, TakeHasWord, NEW core \in Core, Access(core)
    PROVE  /\ FifoEffect(core)
           /\ UNCHANGED <<launchSequence, pendingLaunch, core1Launched, index, cpu1, drained>>
           /\ at'[core] \notin {"launch", "ack", "lastack"}
           /\ at'[core] = "take" => UNCHANGED inbound /\ inbound[core] # << >>
           /\ \A c \in Core : c # core => at'[c] = at[c]
<1>0. core1Launched /\ at \in [Core -> Label] /\ SioTypes
    BY AccessAfterLaunch DEF TypeInv, PicoTypeOK
<1>1. CASE Push(core)
  <2>1. Head(calls[core]).word \in Word
      BY <1>1, CallTypes DEF Push, Calling
  <2>2. \/ ~HasRoom(core) /\ WriteOverflow(core)
        \/ HasRoom(core) /\ WriteToCore(core, Head(calls[core]).word)
      BY <1>0, <1>1 DEF Push, FifoWrite
  <2>3. FifoLost(core) \/ FifoSent(core)
      BY <1>1, <2>1, <2>2 DEF Push, WriteOverflow, WriteToCore, FifoLost, FifoSent
  <2>4. UNCHANGED <<launchSequence, pendingLaunch, core1Launched, index, cpu1, drained>>
      BY <1>1, <2>2 DEF Push, WriteOverflow, WriteToCore
  <2> QED BY <1>0, <1>1, <2>3, <2>4 DEF FifoEffect, Push, Return, Goto
<1>2. CASE PopPoll(core)
    BY <1>0, <1>2 DEF PopPoll, Valid, Goto, FifoEffect, FifoIdle, sio_vars, fifo_vars
<1>3. CASE PopTake(core)
  <2>1. Valid(core) /\ FifoRead(core)
      BY <1>3 DEF PopTake, TakeHasWord, Valid
  <2>2. FifoTaken(core)
      BY <1>3, <2>1 DEF PopTake, FifoRead, Valid, ReadValue, FifoTaken
  <2> QED BY <1>0, <1>3, <2>2 DEF FifoEffect, PopTake, FifoRead, Return, Goto
<1>4. CASE ReadUnpolled(core)
  <2>1. CASE Valid(core)
    <3>1. FifoTaken(core)
        BY <1>4, <2>1 DEF ReadUnpolled, FifoRead, Valid, ReadValue, FifoTaken
    <3> QED BY <1>0, <1>4, <3>1 DEF FifoEffect, ReadUnpolled, FifoRead, Return, Goto
  <2>2. CASE ~Valid(core)
    <3>1. popped' = popped
      <4>1. popped \in [Core -> Seq(Word)]
          BY DEF TypeInv, PicoTypeOK
      <4> QED BY <1>4, <2>2, <4>1 DEF ReadUnpolled
    <3>2. FifoEmpty(core)
        BY <1>4, <2>2, <3>1 DEF ReadUnpolled, FifoRead, FifoEmpty
    <3> QED BY <1>0, <1>4, <3>2 DEF FifoEffect, ReadUnpolled, FifoRead, Return, Goto
  <2> QED BY <2>1, <2>2
<1>5. CASE ClearErrors(core)
    BY <1>0, <1>5 DEF ClearErrors, FifoClear, FifoEffect, FifoCleared, Return, Goto
<1>6. CASE AcquireLock(core)
    BY <1>0, <1>6 DEF AcquireLock, fifo_vars, FifoEffect, FifoIdle, Goto
<1>7. CASE GiveDividend(core)
    BY <1>0, <1>7 DEF GiveDividend, fifo_vars, FifoEffect, FifoIdle, Goto
<1>8. CASE GiveDivisor(core)
    BY <1>0, <1>8 DEF GiveDivisor, fifo_vars, FifoEffect, FifoIdle, Goto
<1>9. CASE ReadQuotient(core)
    BY <1>0, <1>9 DEF ReadQuotient, sio_vars, fifo_vars, FifoEffect, FifoIdle, Goto
<1>10. CASE ReadRemainder(core)
    BY <1>0, <1>10 DEF ReadRemainder, sio_vars, fifo_vars, FifoEffect, FifoIdle, Goto
<1>11. CASE ReleaseLock(core)
    BY <1>0, <1>11 DEF ReleaseLock, fifo_vars, FifoEffect, FifoIdle, Return, Goto
<1> QED BY <1>1, <1>2, <1>3, <1>4, <1>5, <1>6, <1>7, <1>8, <1>9, <1>10, <1>11 DEF Access

\* Inside the launch the accesses of core 1 leave the protocol words in front.
LEMMA HandshakeAccess ==
    ASSUME TypeInv, HandshakeInv, TakeHasWord, NEW core \in Core, Access(core)
    PROVE  HandshakeInv' /\ Protocol' = Protocol /\ (core = 0 => Protocol = 0)
<1>0. /\ core1Launched /\ at[core] \notin {"launch", "ack", "lastack"} /\ FifoEffect(core)
      /\ UNCHANGED <<launchSequence, pendingLaunch, core1Launched, index, cpu1, drained>>
      /\ at'[core] \notin {"launch", "ack", "lastack"}
      /\ \A c \in Core : c # core => at'[c] = at[c]
    BY AccessAfterLaunch, AccessEffect
<1>1. /\ inbound \in [Core -> Seq(Word)] /\ fifoError \in [Core -> SUBSET {"WOF", "ROE"}]
      /\ 0 \in Core /\ 1 \in Core /\ (core = 0 \/ core = 1)
    BY DEF TypeInv, PicoTypeOK, SioTypes, Core
<1>2. /\ core = 0 => LaunchReturned /\ LaunchReturned' /\ Protocol = 0 /\ Protocol' = 0
      /\ core = 1 => at'[0] = at[0] /\ Protocol' = Protocol /\ (LaunchReturned' <=> LaunchReturned)
    BY <1>0, <1>1 DEF LaunchReturned, Protocol
<1>3. Progress' /\ DrainedInOrder'
    BY <1>0, <1>1, <1>2 DEF HandshakeInv, Progress, DrainedInOrder, LaunchReturned
<1>4. BeforeLaunch' /\ AfterLaunch'
    BY <1>0, <1>1, <1>2 DEF HandshakeInv, BeforeLaunch, AfterLaunch
<1>5. \/ UNCHANGED inbound
      \/ inbound[core] # << >> /\ inbound' = [inbound EXCEPT ![core] = Tail(@)]
      \/ HasRoom(core) /\ \E word \in Word :
              inbound' = [inbound EXCEPT ![Other(core)] = Append(@, word)]
    BY <1>0 DEF FifoEffect, FifoIdle, FifoLost, FifoSent, FifoTaken, FifoEmpty, FifoCleared
<1>6. FifoWithinDepth' /\ inbound' \in [Core -> Seq(Word)]
  <2>1. \A c \in Core : Len(inbound[c]) \in Nat /\ Len(inbound[c]) <= Depth
      BY <1>1 DEF HandshakeInv, FifoWithinDepth
  <2>2. CASE UNCHANGED inbound
      BY <1>1, <2>1, <2>2 DEF FifoWithinDepth
  <2>3. CASE inbound[core] # << >> /\ inbound' = [inbound EXCEPT ![core] = Tail(@)]
    <3>1. Tail(inbound[core]) \in Seq(Word) /\ Len(Tail(inbound[core])) = Len(inbound[core]) - 1
        BY <1>1, <2>3, TailTypes
    <3>2. inbound'[core] = Tail(inbound[core]) /\ \A c \in Core : c # core => inbound'[c] = inbound[c]
        BY <1>1, <2>3
    <3>3. \A c \in Core : Len(inbound'[c]) <= Depth
      <4>1. Len(inbound'[core]) <= Depth
          BY <2>1, <3>1, <3>2, DepthAssumption
      <4>2. ASSUME NEW c \in Core, c # core PROVE Len(inbound'[c]) <= Depth
          BY <2>1, <3>2, <4>2
      <4> QED BY <4>1, <4>2
    <3>4. inbound' \in [Core -> Seq(Word)]
        BY <1>1, <2>3, <3>1
    <3> QED BY <3>3, <3>4 DEF FifoWithinDepth
  <2>4. ASSUME HasRoom(core), NEW word \in Word,
               inbound' = [inbound EXCEPT ![Other(core)] = Append(@, word)]
        PROVE  FifoWithinDepth' /\ inbound' \in [Core -> Seq(Word)]
    <3>0. Other(core) \in Core
        BY <1>1 DEF Other, Core
    <3>1. /\ Append(inbound[Other(core)], word) \in Seq(Word)
          /\ Len(Append(inbound[Other(core)], word)) = Len(inbound[Other(core)]) + 1
        BY <1>1, <2>4, <3>0
    <3>2. /\ inbound'[Other(core)] = Append(inbound[Other(core)], word)
          /\ \A c \in Core : c # Other(core) => inbound'[c] = inbound[c]
        BY <1>1, <2>4, <3>0
    <3>3. \A c \in Core : Len(inbound'[c]) <= Depth
        BY <2>1, <2>4, <3>0, <3>1, <3>2, DepthAssumption DEF HasRoom
    <3>4. inbound' \in [Core -> Seq(Word)]
        BY <1>1, <2>4, <3>0, <3>1
    <3> QED BY <3>3, <3>4 DEF FifoWithinDepth
  <2> QED BY <1>5, <2>2, <2>3, <2>4
<1>7. ProtocolFirst'
  <2>1. CASE core = 0
    <3>1. Protocol' = 0 /\ LaunchReturned' /\ Len(inbound'[0]) \in Nat
        BY <1>1, <1>2, <1>6, <2>1
    <3> QED BY <3>1 DEF ProtocolFirst
  <2>2. CASE core = 1
    <3>1. fifoError'[0] = fifoError[0]
        BY <1>0, <1>1, <2>2
           DEF FifoEffect, FifoIdle, FifoLost, FifoSent, FifoTaken, FifoEmpty, FifoCleared
    <3>2. /\ Len(inbound'[0]) \in Nat /\ Len(inbound[0]) <= Len(inbound'[0])
          /\ \A i \in 1..Len(inbound[0]) : inbound'[0][i] = inbound[0][i]
      <4>1. CASE inbound'[0] = inbound[0]
          BY <1>1, <4>1
      <4>2. ASSUME NEW word \in Word, inbound'[0] = Append(inbound[0], word)
            PROVE  /\ Len(inbound'[0]) \in Nat /\ Len(inbound[0]) <= Len(inbound'[0])
                   /\ \A i \in 1..Len(inbound[0]) : inbound'[0][i] = inbound[0][i]
        <5>1. inbound[0] \in Seq(Word)
            BY <1>1
        <5> QED BY <4>2, <5>1
      <4>3. inbound'[0] = inbound[0] \/ \E word \in Word : inbound'[0] = Append(inbound[0], word)
          BY <1>1, <1>5, <2>2 DEF Other
      <4> QED BY <4>1, <4>2, <4>3
    <3>3. Protocol \in Nat
        BY DEF Protocol
    <3>4. Len(inbound[0]) \in Nat
        BY <1>1
    <3> QED BY <1>0, <1>2, <2>2, <3>1, <3>2, <3>3, <3>4 DEF HandshakeInv, ProtocolFirst
  <2> QED BY <1>1, <2>1, <2>2
<1> QED BY <1>1, <1>2, <1>3, <1>4, <1>6, <1>7 DEF HandshakeInv

LEMMA HandshakeStart ==
    ASSUME TypeInv, HandshakeInv, StartCore1 PROVE HandshakeInv' /\ Protocol' = Protocol
<1>1. /\ UNCHANGED <<inbound, fifoError, launchSequence, core1Launched, at, index, drained>>
      /\ pendingLaunch # NoLaunch /\ pendingLaunch' = NoLaunch /\ cpu1' = pendingLaunch
    BY DEF StartCore1, TakeCore1Launch
<1>2. Protocol' = Protocol /\ (LaunchReturned' <=> LaunchReturned)
    BY <1>1 DEF Protocol, LaunchReturned
<1>3. Progress' /\ DrainedInOrder' /\ ProtocolFirst' /\ FifoWithinDepth'
    BY <1>1, <1>2 DEF HandshakeInv, Progress, DrainedInOrder, ProtocolFirst, FifoWithinDepth
<1>4. BeforeLaunch' /\ AfterLaunch'
    BY <1>1, <1>2 DEF HandshakeInv, BeforeLaunch, AfterLaunch
<1> QED BY <1>2, <1>3, <1>4 DEF HandshakeInv

LEMMA TakeHasWordInit == PicoInit => TakeHasWord
    BY DEF PicoInit, TakeHasWord, Core

LEMMA HandshakeStep ==
    TypeInv /\ HandshakeInv /\ TakeHasWord /\ [PicoNext]_pico_vars => HandshakeInv'
<1> SUFFICES ASSUME TypeInv, HandshakeInv, TakeHasWord, [PicoNext]_pico_vars PROVE HandshakeInv'
    OBVIOUS
<1>1. CASE UNCHANGED pico_vars
  <2>1. UNCHANGED <<inbound, fifoError, launchSequence, pendingLaunch, core1Launched, at, index,
                    drained, cpu1>>
      BY <1>1 DEF pico_vars, sio_vars, fifo_vars
  <2>2. Protocol' = Protocol /\ (LaunchReturned' <=> LaunchReturned)
      BY <2>1 DEF Protocol, LaunchReturned
  <2>3. Progress' /\ DrainedInOrder' /\ ProtocolFirst' /\ FifoWithinDepth'
      BY <2>1, <2>2 DEF HandshakeInv, Progress, DrainedInOrder, ProtocolFirst, FifoWithinDepth
  <2>4. BeforeLaunch' /\ AfterLaunch'
      BY <2>1, <2>2 DEF HandshakeInv, BeforeLaunch, AfterLaunch
  <2> QED BY <2>3, <2>4 DEF HandshakeInv
<1>2. CASE Core0Access
    BY <1>2, HandshakeWrite, HandshakeRead DEF Core0Access
<1>3. CASE StartCore1
    BY <1>3, HandshakeStart
<1>4. ASSUME NEW core \in Core, Access(core) PROVE HandshakeInv'
    BY <1>4, HandshakeAccess
<1> QED BY <1>1, <1>2, <1>3, <1>4 DEF PicoNext

-----------------------------------------------------------------------------
(* What is popped and what is on its way is what was pushed *)

\* The FIFO `queue' holds `ahead' words of the protocol and after them the words
\* of `sent' that are not in `taken', in order.
InOrder(taken, queue, sent, ahead) ==
    /\ Len(taken) + Len(queue) = Len(sent) + ahead
    /\ \A i \in 1..Len(taken) : taken[i] = sent[i]
    /\ \A i \in 1..(Len(queue) - ahead) : queue[ahead + i] = sent[Len(taken) + i]

\* The protocol words in the FIFO to a core.
Ahead(core) == IF core = 0 THEN Protocol ELSE 0

Conserved ==
    \A core \in Core :
        "WOF" \notin fifoError[Other(core)] /\ ~cleared[Other(core)]
            => InOrder(popped[core], inbound[core], pushed[Other(core)], Ahead(core))

LEMMA InOrderSent ==
    ASSUME NEW taken \in Seq(Word), NEW queue \in Seq(Word), NEW sent \in Seq(Word),
           NEW ahead \in Nat, ahead <= Len(queue), NEW word \in Word,
           InOrder(taken, queue, sent, ahead)
    PROVE  InOrder(taken, Append(queue, word), Append(sent, word), ahead)
<1> DEFINE q == Append(queue, word)
           s == Append(sent, word)
<1>1. /\ Len(q) = Len(queue) + 1 /\ q[Len(queue) + 1] = word
      /\ \A i \in 1..Len(queue) : q[i] = queue[i]
    OBVIOUS
<1>2. /\ Len(s) = Len(sent) + 1 /\ s[Len(sent) + 1] = word
      /\ \A i \in 1..Len(sent) : s[i] = sent[i]
    OBVIOUS
<1> HIDE DEF q, s
<1>3. Len(taken) \in Nat /\ Len(queue) \in Nat /\ Len(sent) \in Nat
    OBVIOUS
<1>4. Len(taken) + Len(q) = Len(s) + ahead /\ Len(taken) <= Len(sent)
  <2>1. Len(taken) + Len(queue) = Len(sent) + ahead
      BY DEF InOrder
  <2>2. Len(q) = Len(queue) + 1 /\ Len(s) = Len(sent) + 1
      BY <1>1, <1>2
  <2> QED BY <1>3, <2>1, <2>2
<1>5. \A i \in 1..Len(taken) : taken[i] = s[i]
    BY <1>2, <1>3, <1>4 DEF InOrder
<1>6. ASSUME NEW i \in 1..(Len(q) - ahead) PROVE q[ahead + i] = s[Len(taken) + i]
  <2>1. CASE i <= Len(queue) - ahead
    <3>1. /\ i \in 1..(Len(queue) - ahead) /\ ahead + i \in 1..Len(queue)
          /\ Len(taken) + i \in 1..Len(sent)
        BY <1>3, <2>1 DEF InOrder
    <3> QED BY <1>1, <1>2, <3>1 DEF InOrder
  <2>2. CASE i = Len(queue) - ahead + 1
    <3>1. ahead + i = Len(queue) + 1 /\ Len(taken) + i = Len(sent) + 1
        BY <1>3, <2>2 DEF InOrder
    <3> QED BY <1>1, <1>2, <3>1
  <2> QED BY <1>1, <1>3, <2>1, <2>2
<1>7. InOrder(taken, q, s, ahead)
    BY <1>4, <1>5, <1>6 DEF InOrder
<1> QED BY <1>7 DEF q, s

LEMMA InOrderTaken ==
    ASSUME NEW taken \in Seq(Word), NEW queue \in Seq(Word), NEW sent \in Seq(Word),
           queue # << >>, InOrder(taken, queue, sent, 0)
    PROVE  InOrder(Append(taken, Head(queue)), Tail(queue), sent, 0)
<1> DEFINE q == Tail(queue)
           t == Append(taken, Head(queue))
<1>1. /\ Len(q) = Len(queue) - 1 /\ Head(queue) = queue[1] /\ Head(queue) \in Word
      /\ \A i \in 1..(Len(queue) - 1) : q[i] = queue[i + 1]
    BY TailTypes
<1>2. /\ Len(t) = Len(taken) + 1 /\ t[Len(taken) + 1] = Head(queue)
      /\ \A i \in 1..Len(taken) : t[i] = taken[i]
    BY <1>1
<1>3. /\ Len(taken) \in Nat /\ Len(queue) \in Nat /\ Len(sent) \in Nat /\ Len(queue) >= 1
    OBVIOUS
<1> HIDE DEF q, t
<1>4. Len(t) + Len(q) = Len(sent) + 0
  <2>1. Len(taken) + Len(queue) = Len(sent) + 0
      BY DEF InOrder
  <2>2. Len(t) = Len(taken) + 1 /\ Len(q) = Len(queue) - 1
      BY <1>1, <1>2
  <2> QED BY <1>3, <2>1, <2>2
<1>5. queue[1] = sent[Len(taken) + 1]
  <2>1. 1 \in 1..(Len(queue) - 0) /\ 0 + 1 = 1
      BY <1>3
  <2> QED BY <2>1 DEF InOrder
<1>6. ASSUME NEW i \in 1..Len(t) PROVE t[i] = sent[i]
  <2>1. CASE i <= Len(taken)
      BY <1>2, <1>3, <2>1 DEF InOrder
  <2>2. CASE i = Len(taken) + 1
      BY <1>1, <1>2, <1>5, <2>2
  <2> QED BY <1>2, <1>3, <2>1, <2>2
<1>7. ASSUME NEW i \in 1..(Len(q) - 0) PROVE q[0 + i] = sent[Len(t) + i]
  <2>1. /\ i \in 1..(Len(queue) - 1) /\ i + 1 \in 1..(Len(queue) - 0)
        /\ 0 + i = i /\ 0 + (i + 1) = i + 1 /\ Len(t) + i = Len(taken) + (i + 1)
      BY <1>1, <1>2, <1>3
  <2> QED BY <1>1, <2>1 DEF InOrder
<1>8. InOrder(t, q, sent, 0)
    BY <1>4, <1>6, <1>7 DEF InOrder
<1> QED BY <1>8 DEF q, t

\* A protocol word leaves the FIFO.
LEMMA InOrderDrained ==
    ASSUME NEW taken \in Seq(Word), NEW queue \in Seq(Word), NEW sent \in Seq(Word),
           NEW ahead \in Nat, ahead >= 1, ahead <= Len(queue), InOrder(taken, queue, sent, ahead)
    PROVE  InOrder(taken, Tail(queue), sent, ahead - 1)
<1> DEFINE q == Tail(queue)
<1>1. /\ Len(q) = Len(queue) - 1
      /\ \A i \in 1..(Len(queue) - 1) : q[i] = queue[i + 1]
  <2>1. queue # << >>
      OBVIOUS
  <2> QED BY <2>1, TailTypes
<1>2. /\ Len(taken) \in Nat /\ Len(queue) \in Nat /\ Len(sent) \in Nat
    OBVIOUS
<1> HIDE DEF q
<1>3. Len(taken) + Len(q) = Len(sent) + (ahead - 1)
    BY <1>1, <1>2 DEF InOrder
<1>4. ASSUME NEW i \in 1..(Len(q) - (ahead - 1)) PROVE q[(ahead - 1) + i] = sent[Len(taken) + i]
  <2>1. /\ i \in 1..(Len(queue) - ahead) /\ (ahead - 1) + i \in 1..(Len(queue) - 1)
        /\ ((ahead - 1) + i) + 1 = ahead + i
      BY <1>1, <1>2
  <2> QED BY <1>1, <2>1 DEF InOrder
<1>5. InOrder(taken, q, sent, ahead - 1)
    BY <1>3, <1>4 DEF InOrder
<1> QED BY <1>5 DEF q

LEMMA ConservedInit == PicoInit => Conserved
<1> SUFFICES ASSUME PicoInit, NEW core \in Core
             PROVE  InOrder(popped[core], inbound[core], pushed[Other(core)], Ahead(core))
    BY DEF Conserved
<1>1. /\ popped[core] = << >> /\ pushed[Other(core)] = << >>
      /\ core = 0 => inbound[core] = <<0>> /\ Ahead(core) = 1
      /\ core = 1 => inbound[core] = << >> /\ Ahead(core) = 0
    BY DEF PicoInit, SioInit, Core, Other, Ahead, Protocol
<1>2. InOrder(<< >>, <<0>>, << >>, 1) /\ InOrder(<< >>, << >>, << >>, 0)
    BY DEF InOrder
<1> QED BY <1>1, <1>2 DEF Core

\* What the proofs below use of the other invariants.
LEMMA ExchangeFacts ==
    ASSUME TypeInv, HandshakeInv, NEW core \in Core
    PROVE  /\ popped[core] \in Seq(Word) /\ inbound[core] \in Seq(Word) /\ pushed[core] \in Seq(Word)
           /\ popped \in [Core -> Seq(Word)] /\ inbound \in [Core -> Seq(Word)]
           /\ pushed \in [Core -> Seq(Word)] /\ cleared \in [Core -> BOOLEAN]
           /\ fifoError \in [Core -> SUBSET {"WOF", "ROE"}]
           /\ Ahead(core) \in Nat /\ Ahead(core) <= Len(inbound[core])
           /\ Other(core) \in Core /\ Other(core) # core /\ Other(Other(core)) = core
           /\ \A c \in Core : c # core => c = Other(core)
<1>1. /\ popped \in [Core -> Seq(Word)] /\ inbound \in [Core -> Seq(Word)]
      /\ pushed \in [Core -> Seq(Word)] /\ cleared \in [Core -> BOOLEAN]
      /\ fifoError \in [Core -> SUBSET {"WOF", "ROE"}]
    BY DEF TypeInv, PicoTypeOK, SioTypes
<1>2. Other(core) \in Core /\ Other(core) # core /\ Other(Other(core)) = core
      /\ \A c \in Core : c # core => c = Other(core)
    BY DEF Other, Core
<1>3. Ahead(core) \in Nat /\ Ahead(core) <= Len(inbound[core])
  <2>1. Len(inbound[core]) \in Nat
      BY <1>1
  <2> QED BY <2>1 DEF Ahead, Protocol, HandshakeInv, ProtocolFirst
<1> QED BY <1>1, <1>2, <1>3

LEMMA ConservedAccess ==
    ASSUME TypeInv, HandshakeInv, TakeHasWord, Conserved, NEW core \in Core, Access(core)
    PROVE  Conserved'
<1>0. /\ FifoEffect(core) /\ Protocol' = Protocol /\ (core = 0 => Protocol = 0)
    BY AccessEffect, HandshakeAccess
<1> SUFFICES ASSUME NEW c \in Core, "WOF" \notin fifoError'[Other(c)], ~cleared'[Other(c)]
             PROVE  InOrder(popped'[c], inbound'[c], pushed'[Other(c)], Ahead(c)')
    BY DEF Conserved
<1>1. Ahead(c)' = Ahead(c) /\ (c = core => Ahead(c) = 0)
    BY <1>0 DEF Ahead
<1> DEFINE o == Other(core)
<1>2. /\ popped \in [Core -> Seq(Word)] /\ inbound \in [Core -> Seq(Word)]
      /\ pushed \in [Core -> Seq(Word)] /\ cleared \in [Core -> BOOLEAN]
      /\ fifoError \in [Core -> SUBSET {"WOF", "ROE"}]
      /\ Ahead(c) \in Nat /\ Ahead(c) <= Len(inbound[c])
      /\ o \in Core /\ o # core /\ Other(o) = core /\ (c = core \/ c = o)
    BY ExchangeFacts
<1> HIDE DEF o
<1>3. "WOF" \notin fifoError[Other(c)] /\ ~cleared[Other(c)]
          => InOrder(popped[c], inbound[c], pushed[Other(c)], Ahead(c))
    BY DEF Conserved
<1>4. CASE FifoIdle
    BY <1>1, <1>3, <1>4 DEF FifoIdle
<1>5. CASE FifoLost(core)
  <2>1. c # o
      BY <1>2, <1>5 DEF FifoLost
  <2>2. /\ popped'[c] = popped[c] /\ inbound'[c] = inbound[c] /\ pushed'[Other(c)] = pushed[Other(c)]
        /\ fifoError'[Other(c)] = fifoError[Other(c)] /\ cleared' = cleared
      BY <1>2, <1>5, <2>1 DEF FifoLost, o
  <2> QED BY <1>1, <1>3, <2>2
<1>6. CASE FifoSent(core)
  <2>1. fifoError' = fifoError /\ cleared' = cleared /\ popped' = popped
      BY <1>6 DEF FifoSent
  <2>2. InOrder(popped[c], inbound[c], pushed[Other(c)], Ahead(c))
      BY <1>3, <2>1
  <2>3. PICK word \in Word :
            /\ inbound' = [inbound EXCEPT ![o] = Append(@, word)]
            /\ pushed' = [pushed EXCEPT ![core] = Append(@, word)]
      BY <1>6 DEF FifoSent, o
  <2>4. CASE c = core
    <3>1. inbound'[c] = inbound[c] /\ pushed'[Other(c)] = pushed[Other(c)]
        BY <1>2, <2>3, <2>4 DEF o
    <3> QED BY <1>1, <2>1, <2>2, <3>1
  <2>5. CASE c = o
    <3>1. /\ inbound'[c] = Append(inbound[c], word)
          /\ pushed'[Other(c)] = Append(pushed[Other(c)], word)
        BY <1>2, <2>3, <2>5
    <3>2. InOrder(popped[c], Append(inbound[c], word), Append(pushed[Other(c)], word), Ahead(c))
      <4>1. popped[c] \in Seq(Word) /\ inbound[c] \in Seq(Word) /\ pushed[Other(c)] \in Seq(Word)
          BY <1>2, <2>5
      <4> QED BY <1>2, <2>2, <4>1, InOrderSent
    <3> QED BY <1>1, <2>1, <3>1, <3>2
  <2> QED BY <1>2, <2>4, <2>5
<1>7. CASE FifoTaken(core)
  <2>1. fifoError' = fifoError /\ cleared' = cleared /\ pushed' = pushed
      BY <1>7 DEF FifoTaken
  <2>2. InOrder(popped[c], inbound[c], pushed[Other(c)], Ahead(c))
      BY <1>3, <2>1
  <2>3. CASE c = core
    <3>1. /\ inbound'[c] = Tail(inbound[c]) /\ popped'[c] = Append(popped[c], Head(inbound[c]))
          /\ inbound[c] # << >>
        BY <1>2, <1>7, <2>3 DEF FifoTaken
    <3>2. InOrder(Append(popped[c], Head(inbound[c])), Tail(inbound[c]), pushed[Other(c)], 0)
      <4>1. popped[c] \in Seq(Word) /\ inbound[c] \in Seq(Word) /\ pushed[Other(c)] \in Seq(Word)
          BY <1>2, <2>3 DEF o
      <4>2. InOrder(popped[c], inbound[c], pushed[Other(c)], 0)
          BY <1>1, <2>2, <2>3
      <4> QED BY <3>1, <4>1, <4>2, InOrderTaken
    <3> QED BY <1>1, <2>1, <2>3, <3>1, <3>2
  <2>4. CASE c = o
    <3>1. inbound'[c] = inbound[c] /\ popped'[c] = popped[c]
        BY <1>2, <1>7, <2>4 DEF FifoTaken
    <3> QED BY <1>1, <2>1, <2>2, <3>1
  <2> QED BY <1>2, <2>3, <2>4
<1>8. CASE FifoEmpty(core)
  <2>1. Other(c) \in Core
      BY <1>2 DEF o
  <2>2. "WOF" \notin fifoError[Other(c)]
      BY <1>2, <1>8, <2>1 DEF FifoEmpty
  <2> QED BY <1>1, <1>3, <1>8, <2>2 DEF FifoEmpty
<1>9. CASE FifoCleared(core)
  <2>1. c # o
      BY <1>2, <1>9 DEF FifoCleared
  <2>2. fifoError'[Other(c)] = fifoError[Other(c)] /\ cleared'[Other(c)] = cleared[Other(c)]
      BY <1>2, <1>9, <2>1 DEF FifoCleared, o
  <2> QED BY <1>1, <1>3, <1>9, <2>2 DEF FifoCleared
<1> QED BY <1>0, <1>4, <1>5, <1>6, <1>7, <1>8, <1>9 DEF FifoEffect

\* The launch itself: core 0 reads protocol words only, and the FIFO holds
\* nothing else while it writes.
LEMMA ConservedLaunch ==
    ASSUME TypeInv, HandshakeInv, Conserved, Core0Access
    PROVE  Conserved'
<1>1. UNCHANGED <<pushed, popped, cleared, fifoError>>
  <2>1. CASE LaunchWrite
    <3>1. HasRoom(0)
      <4>1. ~core1Launched /\ inbound[1] = << >>
          BY <2>1 DEF LaunchWrite, HandshakeInv, AfterLaunch, BeforeLaunch
      <4> QED BY <4>1, DepthAssumption DEF HasRoom, Other
    <3> QED BY <2>1, <3>1 DEF LaunchWrite, FifoWrite, WriteToRom, WriteToCore
  <2>2. CASE LaunchAck \/ LaunchLastAck
    <3>1. Protocol >= 1 /\ Protocol <= Len(inbound[0])
        BY <2>2 DEF LaunchAck, LaunchLastAck, Protocol, HandshakeInv, ProtocolFirst
    <3>2. Valid(0)
      <4>1. inbound[0] = << >> => Len(inbound[0]) = 0
          OBVIOUS
      <4> QED BY <3>1, <4>1 DEF Valid, Protocol
    <3> QED BY <2>2, <3>2 DEF LaunchAck, LaunchLastAck, FifoRead
  <2> QED BY <2>1, <2>2 DEF Core0Access
<1>2. at \in [Core -> Label] /\ inbound \in [Core -> Seq(Word)] /\ 0 \in Core /\ 1 \in Core
    BY DEF TypeInv, PicoTypeOK, SioTypes, Core
<1> SUFFICES ASSUME NEW core \in Core, "WOF" \notin fifoError[Other(core)], ~cleared[Other(core)],
                    InOrder(popped[core], inbound[core], pushed[Other(core)], Ahead(core))
             PROVE  InOrder(popped[core], inbound'[core], pushed[Other(core)], Ahead(core)')
    BY <1>1 DEF Conserved
<1>3. CASE LaunchWrite
  <2>1. /\ ~core1Launched /\ at[0] = "launch" /\ inbound[1] = << >>
        /\ Len(inbound[0]) = 1 /\ Protocol = 1 /\ Protocol' = 2
      BY <1>2, <1>3 DEF LaunchWrite, HandshakeInv, AfterLaunch, BeforeLaunch, Protocol, Goto
  <2>2. HasRoom(0) /\ WriteToRom(LaunchWords[index])
    <3>1. HasRoom(0)
        BY <2>1, DepthAssumption DEF HasRoom, Other
    <3> QED BY <1>3, <2>1, <3>1 DEF LaunchWrite, FifoWrite
  <2>3. inbound'[0] = Append(inbound[0], LaunchWords[index]) /\ inbound'[1] = inbound[1]
      BY <1>2, <2>2 DEF WriteToRom
  <2>4. CASE core = 1
      BY <2>3, <2>4 DEF Ahead
  <2>5. CASE core = 0
    <3>1. Len(inbound'[0]) = 2
      <4>1. LaunchWords[index] \in Word
          BY LaunchWordsTypes DEF TypeInv, PicoTypeOK
      <4>2. inbound[0] \in Seq(Word)
          BY <1>2
      <4>3. Len(Append(inbound[0], LaunchWords[index])) = Len(inbound[0]) + 1
          BY <4>1, <4>2
      <4> QED BY <2>1, <2>3, <4>3
    <3>2. Len(popped[0]) \in Nat /\ Len(pushed[Other(0)]) \in Nat
        BY <1>2, <2>5, ExchangeFacts
    <3>3. InOrder(popped[0], inbound[0], pushed[Other(0)], 1)
        BY <2>1, <2>5 DEF Ahead
    <3>4. Len(popped[0]) + 2 = Len(pushed[Other(0)]) + 2
        BY <2>1, <3>2, <3>3 DEF InOrder
    <3>5. InOrder(popped[0], inbound'[0], pushed[Other(0)], 2)
        BY <3>1, <3>3, <3>4 DEF InOrder
    <3> QED BY <2>1, <2>5, <3>5 DEF Ahead
  <2> QED BY <2>4, <2>5 DEF Core
<1>4. CASE LaunchAck \/ LaunchLastAck
  <2>1. Protocol \in Nat /\ Protocol >= 1 /\ Protocol <= Len(inbound[0]) /\ Protocol' = Protocol - 1
      BY <1>2, <1>4 DEF LaunchAck, LaunchLastAck, Protocol, HandshakeInv, ProtocolFirst, Goto
  <2>2. Valid(0)
      BY <2>1 DEF Valid
  <2>3. inbound'[0] = Tail(inbound[0]) /\ inbound'[1] = inbound[1]
      BY <1>2, <1>4, <2>2 DEF LaunchAck, LaunchLastAck, FifoRead
  <2>4. CASE core = 1
      BY <2>3, <2>4 DEF Ahead
  <2>5. CASE core = 0
    <3>1. popped[0] \in Seq(Word) /\ pushed[Other(0)] \in Seq(Word) /\ inbound[0] \in Seq(Word)
        BY <1>2, <2>5, ExchangeFacts
    <3>2. InOrder(popped[0], inbound[0], pushed[Other(0)], Protocol)
        BY <2>5 DEF Ahead
    <3>3. InOrder(popped[0], Tail(inbound[0]), pushed[Other(0)], Protocol - 1)
        BY <2>1, <3>1, <3>2, InOrderDrained
    <3> QED BY <2>1, <2>3, <2>5, <3>3 DEF Ahead
  <2> QED BY <2>4, <2>5 DEF Core
<1> QED BY <1>3, <1>4 DEF Core0Access

LEMMA ConservedStep ==
    TypeInv /\ HandshakeInv /\ TakeHasWord /\ Conserved /\ [PicoNext]_pico_vars => Conserved'
<1> SUFFICES ASSUME TypeInv, HandshakeInv, TakeHasWord, Conserved, [PicoNext]_pico_vars
             PROVE  Conserved'
    OBVIOUS
<1>1. CASE UNCHANGED pico_vars \/ StartCore1
  <2>1. UNCHANGED <<inbound, fifoError, pushed, popped, cleared, at>>
      BY <1>1 DEF pico_vars, sio_vars, fifo_vars, StartCore1, TakeCore1Launch
  <2>2. Protocol' = Protocol
      BY <2>1 DEF Protocol
  <2> QED BY <2>1, <2>2 DEF Conserved, Ahead
<1>2. CASE Core0Access
    BY <1>2, ConservedLaunch
<1>3. ASSUME NEW core \in Core, Access(core) PROVE Conserved'
    BY <1>3, ConservedAccess
<1> QED BY <1>1, <1>2, <1>3 DEF PicoNext

LEMMA TakeHasWordStep ==
    TypeInv /\ HandshakeInv /\ TakeHasWord /\ [PicoNext]_pico_vars => TakeHasWord'
<1> SUFFICES ASSUME TypeInv, HandshakeInv, TakeHasWord, [PicoNext]_pico_vars,
                    NEW c \in Core, at'[c] = "take"
             PROVE  inbound'[c] # << >>
    BY DEF TakeHasWord
<1>0. at \in [Core -> Label] /\ inbound \in [Core -> Seq(Word)] /\ 0 \in Core /\ 1 \in Core
    BY DEF TypeInv, PicoTypeOK, SioTypes, Core
<1>1. CASE UNCHANGED pico_vars \/ StartCore1
    BY <1>1 DEF pico_vars, sio_vars, fifo_vars, StartCore1, TakeCore1Launch, TakeHasWord
<1>2. CASE Core0Access
  <2>1. at'[0] # "take" /\ at'[1] = at[1]
      BY <1>0, <1>2 DEF Core0Access, LaunchWrite, LaunchAck, LaunchLastAck, Goto
  <2>2. c = 1 /\ inbound[1] # << >> /\ at[1] = "take"
      BY <2>1 DEF Core, TakeHasWord
  <2>3. inbound'[1] = inbound[1]
    <3>1. CASE LaunchWrite
      <4>1. ~core1Launched
          BY <3>1 DEF LaunchWrite, HandshakeInv, AfterLaunch
      <4> QED BY <2>2, <4>1 DEF HandshakeInv, BeforeLaunch
    <3>2. CASE LaunchAck \/ LaunchLastAck
        BY <1>0, <3>2 DEF LaunchAck, LaunchLastAck, FifoRead
    <3> QED BY <1>2, <3>1, <3>2 DEF Core0Access
  <2> QED BY <2>2, <2>3
<1>3. ASSUME NEW core \in Core, Access(core) PROVE inbound'[c] # << >>
  <2>1. /\ FifoEffect(core) /\ (at'[core] = "take" => UNCHANGED inbound /\ inbound[core] # << >>)
        /\ \A d \in Core : d # core => at'[d] = at[d]
      BY <1>3, AccessEffect
  <2>2. CASE c = core
      BY <2>1, <2>2
  <2>3. CASE c # core
    <3>1. inbound[c] # << >> /\ inbound[c] \in Seq(Word)
        BY <1>0, <2>1, <2>3 DEF TakeHasWord
    <3>2. inbound'[c] = inbound[c] \/ \E word \in Word : inbound'[c] = Append(inbound[c], word)
        BY <1>0, <1>3, <2>1, <2>3 DEF FifoEffect, FifoIdle, FifoLost, FifoSent, FifoTaken, FifoEmpty,
                                FifoCleared, Other, Core
    <3>3. \A word \in Word : Append(inbound[c], word) # << >>
        BY <3>1
    <3> QED BY <3>1, <3>2, <3>3
  <2> QED BY <2>2, <2>3
<1> QED BY <1>1, <1>2, <1>3 DEF PicoNext

LEMMA ConservedFaithful == TypeInv /\ HandshakeInv /\ Conserved => ExchangeFaithful
<1> SUFFICES ASSUME TypeInv, HandshakeInv, Conserved, NEW core \in Core, LaunchReturned,
                    "WOF" \notin fifoError[Other(core)], ~cleared[Other(core)]
             PROVE  popped[core] \o inbound[core] = pushed[Other(core)]
    BY DEF ExchangeFaithful
<1> DEFINE t == popped[core]
           q == inbound[core]
           s == pushed[Other(core)]
<1>1. t \in Seq(Word) /\ q \in Seq(Word) /\ s \in Seq(Word)
    BY ExchangeFacts
<1>2. Ahead(core) = 0
    BY DEF Ahead, Protocol, LaunchReturned
<1>3. InOrder(t, q, s, 0)
    BY <1>2 DEF Conserved
<1> HIDE DEF t, q, s
<1>4. /\ t \o q \in Seq(Word) /\ Len(t \o q) = Len(t) + Len(q)
      /\ \A i \in 1..(Len(t) + Len(q)) : (t \o q)[i] = IF i <= Len(t) THEN t[i] ELSE q[i - Len(t)]
    BY <1>1, ConcatProperties
<1>5. Len(t \o q) = Len(s)
  <2>1. Len(t) + Len(q) = Len(s) + 0 /\ Len(s) \in Nat
      BY <1>1, <1>3 DEF InOrder
  <2> QED BY <1>4, <2>1
<1>6. ASSUME NEW i \in 1..Len(t \o q) PROVE (t \o q)[i] = s[i]
  <2>0. Len(t) \in Nat /\ Len(q) \in Nat
      BY <1>1
  <2>1. CASE i <= Len(t)
      BY <1>3, <1>4, <2>0, <2>1 DEF InOrder
  <2>2. CASE i > Len(t)
    <3>1. /\ i - Len(t) \in 1..(Len(q) - 0) /\ 0 + (i - Len(t)) = i - Len(t)
          /\ Len(t) + (i - Len(t)) = i
        BY <1>4, <2>0, <2>2
    <3>2. q[i - Len(t)] = s[i]
        BY <1>3, <3>1 DEF InOrder
    <3> QED BY <1>4, <2>0, <2>2, <3>2
  <2> QED BY <1>4, <2>0, <2>1, <2>2
<1>7. t \o q = s
    BY <1>1, <1>4, <1>5, <1>6, SeqEqual
<1> QED BY <1>7 DEF t, q, s

LEMMA Prefix ==
    \A S : \A s \in Seq(S) : \A n \in 0..Len(s) :
        /\ SubSeq(s, 1, n) \in Seq(S) /\ Len(SubSeq(s, 1, n)) = n
        /\ \A i \in 1..n : SubSeq(s, 1, n)[i] = s[i]
    BY SubSeqProperties

LEMMA HandshakeConcludes == TypeInv /\ HandshakeInv => LaunchHandshake
<1> SUFFICES ASSUME TypeInv, HandshakeInv PROVE LaunchHandshake
    OBVIOUS
<1>1. /\ drained \in Seq(Word) /\ Len(drained) \in 0..7 /\ (LaunchReturned => Len(drained) = 7)
  <2>1. at[0] \in {"launch", "ack", "lastack"} \/ LaunchReturned
      BY DEF LaunchReturned
  <2>2. drained \in Seq(Word) /\ index \in 1..6
      BY DEF TypeInv, PicoTypeOK
  <2>3. LaunchReturned => Len(drained) = 7
      BY DEF HandshakeInv, Progress
  <2>4. at[0] \in {"launch", "ack"} => Len(drained) = index - 1
      BY DEF HandshakeInv, Progress
  <2>5. at[0] = "lastack" => Len(drained) = 6
      BY DEF HandshakeInv, Progress
  <2>6. Len(drained) = index - 1 \/ Len(drained) = 6 \/ Len(drained) = 7
      BY <2>1, <2>3, <2>4, <2>5
  <2>7. Len(drained) \in 0..7
    <3>1. index - 1 \in 0..7 /\ 6 \in 0..7 /\ 7 \in 0..7
        BY <2>2
    <3> QED BY <2>6, <3>1
  <2> QED BY <2>2, <2>3, <2>7
<1>2. Sent \in Seq(Word) /\ Len(Sent) = 7
  <2>1. 0 \in Word /\ 1 \in Word
      BY ModulusAssumption DEF Word
  <2> QED BY <2>1, LaunchWordsAssumption DEF Sent
<1> DEFINE head == SubSeq(Sent, 1, Len(drained))
<1>3. /\ head \in Seq(Word) /\ Len(head) = Len(drained)
      /\ \A i \in 1..Len(drained) : head[i] = Sent[i]
  <2>1. Len(drained) \in 0..Len(Sent)
      BY <1>1, <1>2
  <2> QED BY <1>2, <2>1, Prefix
<1> HIDE DEF head
<1>4. drained = head
  <2>1. \A i \in 1..Len(drained) : drained[i] = head[i]
      BY <1>3 DEF HandshakeInv, DrainedInOrder
  <2> QED BY <1>1, <1>3, <2>1, SeqEqual
<1>5. \E length \in 0..7 : drained = SubSeq(<<0>> \o LaunchWords, 1, length)
  <2>1. drained = SubSeq(<<0>> \o LaunchWords, 1, Len(drained))
      BY <1>4, SentIs DEF head
  <2> QED BY <1>1, <2>1
<1>6. LaunchReturned \/ "ROE" \notin fifoError[0]
    BY DEF HandshakeInv, ProtocolFirst
<1>7. cpu1 # NoLaunch => cpu1 = [vector |-> Vector, stack |-> Stack, entry |-> Entry]
    BY DEF HandshakeInv, AfterLaunch, Launching
<1> QED BY <1>1, <1>5, <1>6, <1>7 DEF LaunchHandshake

-----------------------------------------------------------------------------
(* The divider under its lock *)

\* One core at a time is between the read that takes the lock and the write
\* that gives it back, and the lock is not free meanwhile.
LockHeld ==
    /\ \A core \in Core : at[core] \in Guarded => DivLock \notin spinlocks
    /\ ~(at[0] \in Guarded /\ at[1] \in Guarded)

\* What the divider holds for the core inside, by how far it is.
OwnResult(core) ==
    LET own == operation[core] IN
    /\ at[core] = "divisor" => divider.dividend = own.n
    /\ at[core] \in {"quotient", "remainder"} =>
          divider.remainder = Remainder(own.n, own.d, own.signed)
    /\ at[core] = "quotient" => divider.quotient = Quotient(own.n, own.d, own.signed)
    /\ at[core] = "remainder" => own.q = Quotient(own.n, own.d, own.signed)

DividerInv ==
    /\ LockHeld
    /\ \A core \in Core : OwnResult(core)
    /\ \A x \in results : Exact(x.n, x.d, x.signed, x.q, x.r)

LEMMA DividerInit == PicoInit => DividerInv
<1> SUFFICES ASSUME PicoInit PROVE DividerInv
    OBVIOUS
<1>1. at[0] = "launch" /\ at[1] = "next" /\ results = {}
    BY DEF PicoInit, Core
<1> QED BY <1>1 DEF DividerInv, LockHeld, OwnResult, Guarded, Core

\* Steps that leave the divider and its lock alone and start no division.
LEMMA DividerQuiet ==
    ASSUME DividerInv, UNCHANGED <<spinlocks, divider, operation, results>>,
           \A core \in Core : at'[core] = at[core] \/ at'[core] \notin Guarded
    PROVE  DividerInv'
<1>1. \A core \in Core : at'[core] \in Guarded => at'[core] = at[core]
    OBVIOUS
<1>2. LockHeld'
    BY <1>1 DEF DividerInv, LockHeld, Core
<1>3. ASSUME NEW core \in Core PROVE OwnResult(core)'
  <2>1. CASE at'[core] = at[core]
      BY <2>1 DEF DividerInv, OwnResult
  <2>2. CASE at'[core] \notin Guarded
      BY <2>2 DEF OwnResult, Guarded
  <2> QED BY <2>1, <2>2
<1> QED BY <1>2, <1>3 DEF DividerInv

\* A step of the core inside: the other is outside, and stays there.
LEMMA LockInside ==
    ASSUME TypeInv, DividerInv, NEW core \in Core, NEW label \in Guarded,
           at[core] \in Guarded, Goto(core, label), UNCHANGED spinlocks
    PROVE  /\ LockHeld' /\ at'[core] = label
           /\ \A c \in Core : c # core => at'[c] \notin Guarded
<1>1. at'[core] = label /\ \A c \in Core : c # core => at'[c] = at[c]
    BY DEF Goto, TypeInv, PicoTypeOK
<1>2. \A c \in Core : c # core => at[c] \notin Guarded
    BY DEF DividerInv, LockHeld, Core
<1>3. \A c \in Core : at'[c] \in Guarded => DivLock \notin spinlocks
    BY <1>1, <1>2 DEF DividerInv, LockHeld
<1> QED BY <1>1, <1>2, <1>3 DEF LockHeld, Core

LEMMA OutsideOwnsNothing ==
    ASSUME NEW core \in Core, at[core] \notin Guarded PROVE OwnResult(core)
    BY DEF OwnResult, Guarded

LEMMA DividerStep ==
    TypeInv /\ DividerInv /\ [PicoNext]_pico_vars => DividerInv'
<1> SUFFICES ASSUME TypeInv, DividerInv, [PicoNext]_pico_vars PROVE DividerInv'
    OBVIOUS
<1>0. /\ at \in [Core -> Label] /\ 0 \in Core /\ 1 \in Core
      /\ operation \in [Core -> Operation]
      /\ divider \in [dividend : Word, quotient : Word, remainder : Word]
    BY DEF TypeInv, PicoTypeOK, SioTypes, Core
<1>1. CASE UNCHANGED pico_vars \/ StartCore1
  <2>1. UNCHANGED <<spinlocks, divider, operation, results, at>>
      BY <1>1 DEF pico_vars, sio_vars, StartCore1
  <2> QED BY <2>1, DividerQuiet
<1>2. CASE Core0Access
  <2>1. UNCHANGED <<spinlocks, divider, operation, results>>
      BY <1>2 DEF Core0Access, LaunchWrite, LaunchAck, LaunchLastAck
  <2>2. \A c \in Core : at'[c] = at[c] \/ at'[c] \notin Guarded
      BY <1>0, <1>2 DEF Core0Access, LaunchWrite, LaunchAck, LaunchLastAck, Goto, Guarded
  <2> QED BY <2>1, <2>2, DividerQuiet
<1>3. ASSUME NEW core \in Core,
             Push(core) \/ PopTake(core) \/ ReadUnpolled(core) \/ ClearErrors(core)
      PROVE  DividerInv'
  <2>1. UNCHANGED <<spinlocks, divider, operation, results>>
      BY <1>3 DEF Push, PopTake, ReadUnpolled, ClearErrors
  <2>2. \A c \in Core : at'[c] = at[c] \/ at'[c] \notin Guarded
      BY <1>0, <1>3 DEF Push, PopTake, ReadUnpolled, ClearErrors, Return, Goto, Guarded
  <2> QED BY <2>1, <2>2, DividerQuiet
<1>4. ASSUME NEW core \in Core, PopPoll(core) PROVE DividerInv'
  <2>1. UNCHANGED <<spinlocks, divider, operation, results>>
      BY <1>4 DEF PopPoll, sio_vars
  <2>2. \A c \in Core : at'[c] = at[c] \/ at'[c] \notin Guarded
      BY <1>0, <1>4 DEF PopPoll, Goto, Guarded
  <2> QED BY <2>1, <2>2, DividerQuiet
<1>5. ASSUME NEW core \in Core, AcquireLock(core) PROVE DividerInv'
  <2>1. /\ DivLock \in spinlocks /\ spinlocks' = spinlocks \ {DivLock}
        /\ results' = results /\ at'[core] = "dividend"
        /\ \A c \in Core : c # core => at'[c] = at[c]
      BY <1>0, <1>5 DEF AcquireLock, SpinAcquire, Goto
  <2>2. \A c \in Core : at[c] \notin Guarded
      BY <2>1 DEF DividerInv, LockHeld
  <2>3. LockHeld'
      BY <1>0, <2>1, <2>2 DEF LockHeld, Core
  <2>4. \A c \in Core : OwnResult(c)'
      BY <1>5, <2>1, <2>2 DEF OwnResult, Guarded
  <2> QED BY <2>1, <2>3, <2>4 DEF DividerInv
<1>6. ASSUME NEW core \in Core, GiveDividend(core) PROVE DividerInv'
  <2>1. /\ divider'.dividend = operation[core].n
        /\ UNCHANGED <<operation, results, spinlocks>>
      BY <1>0, <1>6 DEF GiveDividend, WriteDividend
  <2>2. /\ LockHeld' /\ at'[core] = "divisor" /\ \A c \in Core : c # core => at'[c] \notin Guarded
      BY <1>6, LockInside DEF GiveDividend, Guarded
  <2>3. \A c \in Core : OwnResult(c)'
      BY <2>1, <2>2 DEF OwnResult, Guarded
  <2> QED BY <2>1, <2>2, <2>3 DEF DividerInv
<1>7. ASSUME NEW core \in Core, GiveDivisor(core) PROVE DividerInv'
  <2>0. divider.dividend = operation[core].n
      BY <1>7 DEF GiveDivisor, DividerInv, OwnResult
  <2>1. /\ divider'.quotient = Quotient(operation[core].n, operation[core].d, operation[core].signed)
        /\ divider'.remainder = Remainder(operation[core].n, operation[core].d, operation[core].signed)
        /\ UNCHANGED <<operation, results, spinlocks>>
      BY <1>0, <1>7, <2>0 DEF GiveDivisor, WriteDivisor
  <2>2. /\ LockHeld' /\ at'[core] = "quotient" /\ \A c \in Core : c # core => at'[c] \notin Guarded
      BY <1>7, LockInside DEF GiveDivisor, Guarded
  <2>3. \A c \in Core : OwnResult(c)'
      BY <2>1, <2>2 DEF OwnResult, Guarded
  <2> QED BY <2>1, <2>2, <2>3 DEF DividerInv
<1>8. ASSUME NEW core \in Core, ReadQuotient(core) PROVE DividerInv'
  <2>0. /\ divider.quotient = Quotient(operation[core].n, operation[core].d, operation[core].signed)
        /\ divider.remainder = Remainder(operation[core].n, operation[core].d, operation[core].signed)
      BY <1>8 DEF ReadQuotient, DividerInv, OwnResult
  <2>1. /\ operation'[core].q = divider.quotient /\ operation'[core].n = operation[core].n
        /\ operation'[core].d = operation[core].d /\ operation'[core].signed = operation[core].signed
        /\ UNCHANGED <<divider, results, spinlocks>>
      BY <1>0, <1>8 DEF ReadQuotient, sio_vars, Operation
  <2>2. /\ LockHeld' /\ at'[core] = "remainder" /\ \A c \in Core : c # core => at'[c] \notin Guarded
      BY <1>8, <2>1, LockInside DEF ReadQuotient, Guarded
  <2>3. OwnResult(core)'
      BY <2>0, <2>1, <2>2 DEF OwnResult
  <2>4. \A c \in Core : OwnResult(c)'
      BY <2>2, <2>3 DEF OwnResult, Guarded
  <2> QED BY <2>1, <2>2, <2>4 DEF DividerInv
<1>9. ASSUME NEW core \in Core, ReadRemainder(core) PROVE DividerInv'
  <2>0. /\ operation[core].q = Quotient(operation[core].n, operation[core].d, operation[core].signed)
        /\ divider.remainder = Remainder(operation[core].n, operation[core].d, operation[core].signed)
      BY <1>9 DEF ReadRemainder, DividerInv, OwnResult
  <2>1. UNCHANGED <<divider, operation, spinlocks>>
      BY <1>9 DEF ReadRemainder, sio_vars
  <2>2. /\ LockHeld' /\ at'[core] = "release" /\ \A c \in Core : c # core => at'[c] \notin Guarded
      BY <1>9, <2>1, LockInside DEF ReadRemainder, Guarded
  <2>3. \A c \in Core : OwnResult(c)'
      BY <2>2 DEF OwnResult, Guarded
  <2>4. Exact(operation[core].n, operation[core].d, operation[core].signed,
              operation[core].q, divider.remainder)
    <3>1. /\ operation[core].n \in Word /\ operation[core].d \in Word
          /\ operation[core].signed \in BOOLEAN
        BY <1>0 DEF Operation
    <3>2. Exact(operation[core].n, operation[core].d, operation[core].signed,
                Quotient(operation[core].n, operation[core].d, operation[core].signed),
                Remainder(operation[core].n, operation[core].d, operation[core].signed))
        BY <3>1, DivisionExact
    <3> QED BY <2>0, <3>2
  <2>5. \A x \in results' : Exact(x.n, x.d, x.signed, x.q, x.r)
      BY <1>9, <2>4 DEF ReadRemainder, DividerInv
  <2> QED BY <2>2, <2>3, <2>5 DEF DividerInv
<1>10. ASSUME NEW core \in Core, ReleaseLock(core) PROVE DividerInv'
  <2>1. /\ UNCHANGED <<divider, operation, results>> /\ at'[core] = "next"
        /\ \A c \in Core : c # core => at'[c] = at[c]
      BY <1>0, <1>10 DEF ReleaseLock, Return, Goto
  <2>2. \A c \in Core : c # core => at[c] \notin Guarded
      BY <1>10 DEF ReleaseLock, DividerInv, LockHeld, Guarded, Core
  <2>3. \A c \in Core : at'[c] \notin Guarded
      BY <2>1, <2>2 DEF Guarded
  <2>4. LockHeld' /\ \A c \in Core : OwnResult(c)'
      BY <1>0, <2>3 DEF LockHeld, OwnResult, Guarded
  <2> QED BY <2>1, <2>4 DEF DividerInv
<1> QED BY <1>1, <1>2, <1>3, <1>4, <1>5, <1>6, <1>7, <1>8, <1>9, <1>10 DEF PicoNext, Access

-----------------------------------------------------------------------------
(* The theorems *)

\* The types of the SIO block and of the two cores hold in every reachable
\* state: a word never leaves its width, the divider's results included.
THEOREM PicoTypesCorrect == PicoSpec => []PicoTypeOK
<1>1. TypeInv => PicoTypeOK
    BY DEF TypeInv
<1> QED BY <1>1, TypesInit, TypesStep, PTL DEF PicoSpec

\* The inductive invariant of the exchange.
ExchangeInv == TypeInv /\ HandshakeInv /\ TakeHasWord /\ Conserved

\* The inductive invariant of the exchange holds in every reachable state.
THEOREM ExchangeInvariant == PicoSpec => []ExchangeInv
<1>1. PicoInit => ExchangeInv
    BY TypesInit, HandshakeInit, TakeHasWordInit, ConservedInit DEF ExchangeInv
<1>2. ExchangeInv /\ [PicoNext]_pico_vars => ExchangeInv'
    BY TypesStep, HandshakeStep, TakeHasWordStep, ConservedStep DEF ExchangeInv
<1> QED BY <1>1, <1>2, PTL DEF PicoSpec

\* The seven unpolled reads of multicore_launch_core1 take exactly the ready
\* word and the six echoes, however core 1 interleaves its own first pushes,
\* and core 1 starts with the words of the call.
THEOREM LaunchHandshakeCorrect == PicoSpec => []LaunchHandshake
<1>1. ExchangeInv => LaunchHandshake
    BY HandshakeConcludes DEF ExchangeInv
<1> QED BY <1>1, ExchangeInvariant, PTL

\* No FIFO exceeds its depth although a write before the launch is admitted by
\* the space of one FIFO and stored in the other.
THEOREM FifoDepthCorrect == PicoSpec => []FifoWithinDepth
<1>1. ExchangeInv => FifoWithinDepth
    BY DEF ExchangeInv, HandshakeInv
<1> QED BY <1>1, ExchangeInvariant, PTL

\* A core whose WOF bit is clear and was never cleared has lost no word: what
\* the other popped, followed by what is on its way, is what it pushed.
THEOREM ExchangeFaithfulCorrect == PicoSpec => []ExchangeFaithful
<1>1. ExchangeInv => ExchangeFaithful
    BY ConservedFaithful DEF ExchangeInv
<1> QED BY <1>1, ExchangeInvariant, PTL

\* Every division under the spinlock reads back the quotient and the remainder
\* of its own operands, for every width of the word, a zero divisor and the
\* quotient that does not fit included.
THEOREM LockedDivisionCorrect == PicoSpec => []LockedDivisionExact
<1>1. TypeInv /\ DividerInv => LockedDivisionExact
    BY DEF DividerInv, LockedDivisionExact, Exact
<1>2. PicoInit => TypeInv /\ DividerInv
    BY TypesInit, DividerInit
<1>3. TypeInv /\ DividerInv /\ [PicoNext]_pico_vars => (TypeInv /\ DividerInv)'
    BY TypesStep, DividerStep
<1> QED BY <1>1, <1>2, <1>3, PTL DEF PicoSpec
=============================================================================
