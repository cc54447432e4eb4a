--------------------------- MODULE WgReplayProofs ---------------------------
(***************************************************************************)
(* For every window width and every set of counters: the replay window     *)
(* answers exactly as the full history of the session would.               *)
(***************************************************************************)
EXTENDS WgReplay, TLAPS

\* The window's contents and the history it stands for, together inductive.
Inv == TypeOK /\ MaskIsExact

\* An empty window over an empty history is a good one.
LEMMA InitInv == Init => Inv
<1>1. Init => TypeOK
  <2> SUFFICES ASSUME Init PROVE TypeOK
    OBVIOUS
  <2>1. verdict \in [counter : Counter \cup {-1}, fresh : BOOLEAN]
    BY DEF Init, NoVerdict
  <2>2. QED
    BY <2>1 DEF Init, TypeOK
<1>2. Init => MaskIsExact
  BY DEF Init, MaskIsExact
<1>3. QED
  BY <1>1, <1>2 DEF Inv

\* Every answer acceptWgCounter gives leaves the mask exact.
LEMMA NextInv == Inv /\ [Next]_vars => Inv'
<1> SUFFICES ASSUME Inv, [Next]_vars PROVE Inv'
  OBVIOUS
<1> USE CounterAssumption, WindowAssumption DEF Inv, TypeOK, MaskIsExact, Age
<1>1. CASE NewSession
  BY <1>1 DEF NewSession, Reset, NoVerdict
<1>2. ASSUME NEW c \in Counter, Accept(c) PROVE Inv'
  <2>1. CASE AcceptFirst(c)
    BY <1>2, <2>1 DEF Accept, AcceptFirst
  <2>2. CASE AcceptNewer(c)
    <3>1. TypeOK'
      <4>1. seenBefore' \subseteq Age
        BY <2>2 DEF AcceptNewer, Shifted
      <4>2. verdict' \in [counter : Counter \cup {-1}, fresh : BOOLEAN]
        BY <1>2 DEF Accept
      <4>3. QED
        BY <1>2, <2>2, <4>1, <4>2 DEF Accept, AcceptNewer
    <3>2. ASSUME NEW d \in Counter, d <= highestCounter', highestCounter' - d < WINDOW
          PROVE  d \in accepted' <=> highestCounter' - d \in seenBefore'
      <4>1. CASE d > highestCounter
        <5>1. d \in accepted' <=> d = c
          <6>1. d \notin accepted
            BY <4>1
          <6>2. QED
            BY <1>2, <6>1 DEF Accept
        <5>2. highestCounter' - d \in seenBefore' <=> d = c
          <6>1. highestCounter' = c /\ c - highestCounter \in Nat
            BY <2>2 DEF AcceptNewer
          <6>2. c - d \in Nat /\ c - d < c - highestCounter
            BY <3>2, <4>1, <6>1
          <6>3. \A age \in Shifted(c - highestCounter) : age >= c - highestCounter
            BY <6>1 DEF Shifted
          <6>4. seenBefore' = {0} \cup Shifted(c - highestCounter)
            BY <2>2 DEF AcceptNewer
          <6>5. c - d \in seenBefore' <=> c - d = 0
            BY <6>1, <6>2, <6>3, <6>4
          <6>6. QED
            BY <6>1, <6>2, <6>5
        <5>3. QED
          BY <5>1, <5>2
      <4>2. CASE d <= highestCounter
        <5>1. highestCounter - d < WINDOW /\ highestCounter - d \in Nat
          BY <2>2, <3>2, <4>2 DEF AcceptNewer
        <5>2. d \in accepted <=> highestCounter - d \in seenBefore
          BY <2>2, <4>2, <5>1 DEF AcceptNewer
        <5>3. highestCounter' - d \in seenBefore'
                 <=> highestCounter - d \in seenBefore
          BY <2>2, <3>2, <4>2, <5>1 DEF AcceptNewer, Shifted
        <5>4. d \in accepted' <=> d \in accepted
          BY <1>2, <2>2, <4>2 DEF Accept, AcceptNewer
        <5>5. QED
          BY <5>2, <5>3, <5>4
      <4>3. QED
        BY <4>1, <4>2
    <3>3. QED
      BY <1>2, <2>2, <3>1, <3>2 DEF Accept, AcceptNewer
  <2>3. CASE AcceptLate(c)
    BY <1>2, <2>3 DEF Accept, AcceptLate
  <2>4. QED
    BY <1>2, <2>1, <2>2, <2>3 DEF Accept
<1>3. ASSUME NEW c \in Counter, Refuse(c) PROVE Inv'
  BY <1>3 DEF Refuse, window
<1>4. CASE UNCHANGED vars
  BY <1>4 DEF vars
<1>5. QED
  BY <1>1, <1>2, <1>3, <1>4 DEF Next

\* The highest counter, the mask and what was let through stay of their types,
\* whatever jumps past the width and sessions come.
THEOREM TypesAlwaysHold == Spec => []TypeOK
<1>1. QED
  BY InitInv, NextInv, PTL DEF Spec, Inv

\* The window's mask is always exact, so a bit that slid out or a session that
\* changed never leaves a wrong answer behind.
THEOREM MaskAlwaysExact == Spec => []MaskIsExact
<1>1. QED
  BY InitInv, NextInv, PTL DEF Spec, Inv

\* With an exact mask, the code's answer is the one the history gives.
LEMMA AnswersAgree ==
  ASSUME Inv, NEW c \in Counter
  PROVE  /\ Accept(c) => Promise!Fresh(c)
         /\ Refuse(c) => ~Promise!Fresh(c)
<1> USE CounterAssumption, WindowAssumption DEF Inv, TypeOK, MaskIsExact, Age
<1>1. ASSUME Accept(c) PROVE Promise!Fresh(c)
  BY <1>1 DEF Accept, AcceptFirst, AcceptNewer, AcceptLate, Promise!Fresh
<1>2. ASSUME Refuse(c) PROVE ~Promise!Fresh(c)
  <2>1. CASE highestCounter - c >= WINDOW
    BY <1>2, <2>1 DEF Refuse, Promise!Fresh
  <2>2. CASE highestCounter - c < WINDOW
    BY <1>2, <2>2 DEF Refuse, Promise!Fresh
  <2>3. QED
    BY <2>1, <2>2
<1>3. QED
  BY <1>1, <1>2

\* A packet's counter is let through at most once in a session, whatever the
\* network duplicates, reorders or delays.
THEOREM AcceptedOnce == Spec => NeverAcceptedTwice
<1>1. Inv /\ [Next]_vars => [\A c \in Counter : Accept(c) => c \notin accepted]_vars
  BY AnswersAgree DEF Promise!Fresh
<1>2. QED
  BY <1>1, InitInv, NextInv, PTL DEF Spec, NeverAcceptedTwice

\* The window implements the session's promise: a mask of WINDOW bits answers
\* as an unbounded memory of every counter would.
THEOREM WindowKeepsPromise == Spec => KeepsPromise
<1>1. Init => Promise!Init
  BY DEF Init, Promise!Init, NoVerdict, Promise!NoVerdict
<1>2. Inv /\ [Next]_vars => [Promise!Next]_<<accepted, verdict>>
  <2> SUFFICES ASSUME Inv, [Next]_vars
               PROVE  [Promise!Next]_<<accepted, verdict>>
    OBVIOUS
  <2>1. CASE NewSession
    BY <2>1 DEF NewSession, Promise!Next, Promise!NewSession, NoVerdict,
                Promise!NoVerdict
  <2>2. ASSUME NEW c \in Counter, Accept(c) PROVE Promise!Judge(c)
    <3>1. Promise!Fresh(c) = TRUE
      BY <2>2, AnswersAgree DEF Promise!Fresh
    <3>2. QED
      BY <2>2, <3>1 DEF Accept, Promise!Judge
  <2>3. ASSUME NEW c \in Counter, Refuse(c) PROVE Promise!Judge(c)
    <3>1. Promise!Fresh(c) = FALSE
      BY <2>3, AnswersAgree DEF Promise!Fresh
    <3>2. QED
      BY <2>3, <3>1 DEF Refuse, window, Promise!Judge
  <2>4. CASE UNCHANGED vars
    BY <2>4 DEF vars
  <2>5. QED
    BY <2>1, <2>2, <2>3, <2>4 DEF Next, Promise!Next
<1>3. QED
  BY <1>1, <1>2, InitInv, NextInv, PTL DEF Spec, KeepsPromise, Promise!Spec
=============================================================================
