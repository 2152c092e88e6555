-------------------------- MODULE HexaButtonProofs --------------------------
(***************************************************************************)
(* Machine-checked facts about HexaButton, for every number of buttons,    *)
(* every DEBOUNCE_MAX and every place scan is called from.                 *)
(***************************************************************************)
EXTENDS HexaButton, TLAPS

-----------------------------------------------------------------------------
(* The inductive invariant.                                                *)

(* What the two sides have loaded from pressed is still good: the copy of  *)
(* hexa_button_pressed is pressed itself, and scan's, which may have grown *)
(* old, at least holds every press not yet reported.                       *)
CopiesHold ==
  /\ step = "store" => fresh \subseteq loaded
  /\ ask = "store" => copy = pressed
  /\ step # "poll" => InScan

(* Without a scan task nothing is pressed that was already reported,       *)
(* because neither side ever finds the other half-way.                     *)
NoEcho ==
  mode # "task" =>
    /\ pressed \subseteq fresh
    /\ step = "store" => loaded \subseteq fresh
    /\ InScan => ask \notin {"load", "store"}

(* The counter of a button bounds what its last polls were, and how long   *)
(* ago its state changed.                                                  *)
CounterFits(b) ==
  /\ level[b] => run[b] <= integ[b]
  /\ ~level[b] => integ[b] + run[b] <= DEBOUNCE_MAX
  /\ integ[b] = DEBOUNCE_MAX => b \in state
  /\ integ[b] = 0 => b \notin state
  /\ b \in state => integ[b] + quiet[b] >= DEBOUNCE_MAX
  /\ b \notin state => integ[b] <= quiet[b]

IInv == /\ TypeOK
        /\ NothingLost
        /\ CopiesHold
        /\ NoEcho
        /\ \A b \in Buttons : CounterFits(b)

-----------------------------------------------------------------------------
(* Each poll moves the counter by at most one and keeps it between its     *)
(* ends (the two guards on integ[i] in hexa_button_scan).                  *)
LEMMA CountFits ==
  ASSUME NEW k \in 0 .. DEBOUNCE_MAX
  PROVE  /\ \A down \in BOOLEAN : Count(k, down) \in 0 .. DEBOUNCE_MAX
         /\ Count(k, TRUE) = AtMost(k + 1)
         /\ k > 0 => Count(k, FALSE) = k - 1
         /\ k = 0 => Count(k, FALSE) = 0
         /\ AtMost(k + 1) \in 0 .. DEBOUNCE_MAX
         /\ k < DEBOUNCE_MAX => AtMost(k + 1) = k + 1
         /\ k = DEBOUNCE_MAX => AtMost(k + 1) = DEBOUNCE_MAX
  BY MaxAssumption DEF Count, AtMost

(* The bitmaps are empty and the counters zero before the first scan.      *)
LEMMA InitIInv == Init => IInv
  BY CountAssumption, MaxAssumption
  DEF Init, IInv, TypeOK, NothingLost, CopiesHold, NoEcho, CounterFits, InScan,
      Buttons

(* What a poll of one pin does: the counter, state and the history of the  *)
(* button change together, and nothing of the other buttons does.          *)
LEMMA PollIInv ==
  ASSUME IInv, Poll
  PROVE  /\ IInv'
         /\ \A b \in Buttons : ((b \in state') # (b \in state))
                                  => quiet[b] + 1 >= DEBOUNCE_MAX
  <1>1. /\ i \in Buttons /\ integ[i] \in 0 .. DEBOUNCE_MAX
        /\ run[i] \in 0 .. DEBOUNCE_MAX /\ quiet[i] \in 0 .. DEBOUNCE_MAX
        /\ step = "poll" /\ InScan /\ ScanMayRun
        /\ level[i] \in BOOLEAN
        /\ CounterFits(i)
    BY CountAssumption DEF IInv, TypeOK, Poll, InScan, Buttons
  <1>2. PICK down \in BOOLEAN :
       LET count   == Count(integ[i], down)
           becomes == CASE count = DEBOUNCE_MAX -> state \cup {i}
                        [] count # DEBOUNCE_MAX /\ count = 0 -> state \ {i}
                        [] OTHER -> state
       IN /\ integ' = [integ EXCEPT ![i] = count]
          /\ state' = becomes
          /\ IF i \in becomes /\ i \notin state
               THEN step' = "load" /\ UNCHANGED i
               ELSE NextButton
          /\ level' = [level EXCEPT ![i] = down]
          /\ run' = [run EXCEPT ![i] = IF down = level[i] THEN AtMost(@ + 1)
                                                          ELSE 1]
          /\ quiet' = [quiet EXCEPT ![i] = IF becomes = state THEN AtMost(@ + 1)
                                                              ELSE 0]
    BY DEF Poll
  <1>3. UNCHANGED <<mode, pressed, loaded, ask, n, copy, fresh>>
    BY DEF Poll, askVars
  <1> DEFINE count == Count(integ[i], down)
             r     == IF down = level[i] THEN AtMost(run[i] + 1) ELSE 1
             q     == IF state' = state THEN AtMost(quiet[i] + 1) ELSE 0
  <1>4. /\ integ' = [integ EXCEPT ![i] = count]
        /\ level' = [level EXCEPT ![i] = down]
        /\ run' = [run EXCEPT ![i] = r]
        /\ quiet' = [quiet EXCEPT ![i] = q]
        /\ count = DEBOUNCE_MAX => state' = state \cup {i}
        /\ count # DEBOUNCE_MAX /\ count = 0 => state' = state \ {i}
        /\ count # DEBOUNCE_MAX /\ count # 0 => state' = state
        /\ \/ step' = "load" /\ i' = i
           \/ step' = "poll" /\ i' = i + 1
    BY <1>2 DEF NextButton
  <1>5. /\ count \in 0 .. DEBOUNCE_MAX
        /\ down => count = AtMost(integ[i] + 1)
        /\ ~down /\ integ[i] > 0 => count = integ[i] - 1
        /\ ~down /\ integ[i] = 0 => count = 0
    BY <1>1, CountFits
  <1>6. /\ r \in 0 .. DEBOUNCE_MAX /\ q \in 0 .. DEBOUNCE_MAX
    <2>1. AtMost(run[i] + 1) \in 0 .. DEBOUNCE_MAX
      BY <1>1, CountFits
    <2>2. AtMost(quiet[i] + 1) \in 0 .. DEBOUNCE_MAX
      BY <1>1, CountFits
    <2>3. 0 \in 0 .. DEBOUNCE_MAX /\ 1 \in 0 .. DEBOUNCE_MAX
      BY MaxAssumption
    <2>. QED
      BY <2>1, <2>2, <2>3
  <1> HIDE DEF count, r, q
  <1>7. TypeOK'
    <2>1. /\ integ' \in [Buttons -> 0 .. DEBOUNCE_MAX]
          /\ level' \in [Buttons -> BOOLEAN]
          /\ run' \in [Buttons -> 0 .. DEBOUNCE_MAX]
          /\ quiet' \in [Buttons -> 0 .. DEBOUNCE_MAX]
      BY <1>4, <1>5, <1>6 DEF IInv, TypeOK
    <2>2. state' \subseteq Buttons
      BY <1>1, <1>4 DEF IInv, TypeOK
    <2>3. i' \in 0 .. BOARD_BTN_COUNT /\ step' \in {"poll", "load", "store"}
      BY <1>1, <1>4, CountAssumption DEF Buttons
    <2>. QED
      BY <1>3, <2>1, <2>2, <2>3 DEF IInv, TypeOK
  <1>8. (NothingLost /\ CopiesHold /\ NoEcho)'
    <2>1. step' # "store" /\ (step' # "poll" => InScan')
      BY <1>1, <1>4 DEF InScan
    <2>. QED
      BY <1>1, <1>3, <2>1 DEF IInv, NothingLost, CopiesHold, NoEcho
  <1>9. ASSUME NEW b \in Buttons
        PROVE  /\ CounterFits(b)'
               /\ ((b \in state') # (b \in state)) => quiet[b] + 1 >= DEBOUNCE_MAX
    <2>1. CASE b # i
      <3>1. /\ integ'[b] = integ[b] /\ level'[b] = level[b] /\ run'[b] = run[b]
            /\ quiet'[b] = quiet[b] /\ (b \in state' <=> b \in state)
        BY <2>1, <1>4 DEF IInv, TypeOK
      <3>. QED
        BY <3>1 DEF IInv, CounterFits
    <2>2. CASE b = i
      <3>1. /\ integ'[i] = count /\ level'[i] = down /\ run'[i] = r
            /\ quiet'[i] = q
        BY <1>1, <1>4 DEF IInv, TypeOK
      <3>2. /\ down => r <= count
            /\ ~down => count + r <= DEBOUNCE_MAX
        <4>1. CASE down
          <5>1. count = AtMost(integ[i] + 1) /\ count >= 1
            BY <1>1, <1>5, <4>1, MaxAssumption DEF AtMost
          <5>2. CASE level[i]
            <6>1. r = AtMost(run[i] + 1) /\ run[i] <= integ[i]
              BY <1>1, <4>1, <5>2 DEF CounterFits, r
            <6>. QED
              BY <1>1, <4>1, <5>1, <6>1, MaxAssumption DEF AtMost
          <5>3. CASE ~level[i]
            BY <4>1, <5>1, <5>3 DEF r
          <5>. QED
            BY <5>2, <5>3
        <4>2. CASE ~down
          BY <1>1, <1>5, <4>2, MaxAssumption DEF CounterFits, r, AtMost
        <4>. QED
          BY <4>1, <4>2
      <3>3. /\ count = DEBOUNCE_MAX => i \in state'
            /\ count = 0 => i \notin state'
        BY <1>4, MaxAssumption
      <3>4. CASE state' = state
        <4>1. q = AtMost(quiet[i] + 1)
          BY <3>4 DEF q
        <4>2. /\ i \in state' => count + q >= DEBOUNCE_MAX
              /\ i \notin state' => count <= q
          BY <1>1, <1>5, <3>4, <4>1, MaxAssumption DEF CounterFits, AtMost
        <4>. QED
          BY <2>2, <3>1, <3>2, <3>3, <3>4, <4>2 DEF CounterFits
      <3>5. CASE state' # state
        <4>1. q = 0
          BY <3>5 DEF q
        <4>2. \/ count = DEBOUNCE_MAX /\ i \notin state /\ i \in state'
              \/ count = 0 /\ i \in state /\ i \notin state'
          BY <1>4, <3>5, MaxAssumption
        <4>3. quiet[i] + 1 >= DEBOUNCE_MAX
          BY <1>1, <1>5, <4>2, MaxAssumption DEF CounterFits, AtMost
        <4>4. /\ i \in state' => count + q >= DEBOUNCE_MAX
              /\ i \notin state' => count <= q
          BY <4>1, <4>2, MaxAssumption
        <4>. QED
          BY <2>2, <3>1, <3>2, <3>3, <4>3, <4>4 DEF CounterFits
      <3>. QED
        BY <3>4, <3>5
    <2>. QED
      BY <2>1, <2>2
  <1>. QED
    BY <1>7, <1>8, <1>9 DEF IInv

(* A step that leaves the debounce alone leaves its part of the invariant. *)
LEMMA CountersStay ==
  ASSUME IInv, UNCHANGED <<integ, state, level, run, quiet>>
  PROVE  \A b \in Buttons : CounterFits(b)'
  BY DEF IInv, CounterFits

(* The rest of scan: it begins, loads pressed, and stores it with the new  *)
(* press; the store only adds.                                             *)
LEMMA ScanIInv ==
  ASSUME IInv, ScanBegins \/ LoadPressed \/ StorePressed
  PROVE  IInv' /\ state' = state
  <1>1. UNCHANGED <<mode, integ, state, ask, n, copy, level, run, quiet>>
    BY DEF ScanBegins, LoadPressed, StorePressed, askVars
  <1>2. \A b \in Buttons : CounterFits(b)'
    BY <1>1, CountersStay
  <1>3. CASE ScanBegins
    BY <1>1, <1>2, <1>3, CountAssumption
    DEF ScanBegins, ScanMayRun, IInv, TypeOK, NothingLost, CopiesHold, NoEcho, InScan
  <1>4. CASE LoadPressed
    BY <1>1, <1>2, <1>4
    DEF LoadPressed, ScanMayRun, IInv, TypeOK, NothingLost, CopiesHold, NoEcho, InScan
  <1>5. CASE StorePressed
    <2>1. /\ i \in Buttons /\ ask # "store" /\ InScan /\ ask # "load"
          /\ fresh \subseteq loaded /\ step = "store"
      BY <1>5, CountAssumption
      DEF StorePressed, ScanMayRun, IInv, TypeOK, CopiesHold, InScan, Buttons
    <2>2. /\ pressed' = loaded \cup {i} /\ fresh' = fresh \cup {i}
          /\ i' = i + 1 /\ step' = "poll" /\ loaded' = loaded
      BY <1>5 DEF StorePressed, NextButton
    <2>3. TypeOK'
      <3>1. i' \in 0 .. BOARD_BTN_COUNT
        BY <2>1, <2>2, CountAssumption DEF Buttons
      <3>. QED
        BY <1>1, <2>1, <2>2, <3>1 DEF IInv, TypeOK
    <2>4. (NothingLost /\ CopiesHold /\ NoEcho)'
      BY <1>1, <2>1, <2>2 DEF IInv, NothingLost, CopiesHold, NoEcho
    <2>. QED
      BY <1>1, <1>2, <2>3, <2>4 DEF IInv
  <1>. QED
    BY <1>1, <1>3, <1>4, <1>5

(* hexa_button_pressed: what it clears it has reported.                    *)
LEMMA AskIInv ==
  ASSUME IInv, NEW b \in Buttons, hexa_button_pressed(b)
  PROVE  IInv' /\ state' = state
  <1>1. UNCHANGED <<mode, integ, state, i, step, loaded, level, run, quiet>>
    BY DEF hexa_button_pressed, InPressed, HEXA_CRIT_ENTER, ReadPressed,
           ClearPressed, HEXA_CRIT_EXIT, scanVars
  <1>2. \A c \in Buttons : CounterFits(c)'
    BY <1>1, CountersStay
  <1>3. CASE HEXA_CRIT_ENTER(b)
    BY <1>1, <1>2, <1>3, ModesAssumption
    DEF HEXA_CRIT_ENTER, AskMayRun, IInv, TypeOK, AllModes, NothingLost, CopiesHold,
        NoEcho, InScan
  <1>4. CASE ReadPressed
    BY <1>1, <1>2, <1>4
    DEF ReadPressed, IInv, TypeOK, NothingLost, CopiesHold, NoEcho, InScan
  <1>5. CASE ClearPressed
    BY <1>1, <1>2, <1>5
    DEF ClearPressed, Cleared, p, IInv, TypeOK, NothingLost, CopiesHold, NoEcho, InScan
  <1>6. CASE HEXA_CRIT_EXIT
    <2>1. 0 \in Buttons
      BY CountAssumption DEF Buttons
    <2>. QED
      BY <1>1, <1>2, <1>6, <2>1
      DEF HEXA_CRIT_EXIT, IInv, TypeOK, NothingLost, CopiesHold, NoEcho, InScan
  <1>. QED
    BY <1>1, <1>3, <1>4, <1>5, <1>6 DEF hexa_button_pressed, InPressed

(* Every step preserves the invariant, and changes a state only after      *)
(* DEBOUNCE_MAX polls without a change.                                    *)
LEMMA NextIInv ==
  ASSUME IInv, [Next]_vars
  PROVE  /\ IInv'
         /\ [\A b \in Buttons :
               hexa_button_down(b)' # hexa_button_down(b)
                 => quiet[b] + 1 >= DEBOUNCE_MAX]_vars
  <1>1. CASE Poll
    BY <1>1, PollIInv DEF hexa_button_down
  <1>2. CASE ScanBegins \/ LoadPressed \/ StorePressed
    BY <1>2, ScanIInv DEF hexa_button_down
  <1>3. ASSUME NEW b \in Buttons, hexa_button_pressed(b) PROVE IInv' /\ state' = state
    BY <1>3, AskIInv
  <1>4. CASE UNCHANGED vars
    BY <1>4, CountersStay
    DEF vars, scanVars, askVars, IInv, TypeOK, NothingLost, CopiesHold, NoEcho, InScan
  <1>. QED
    BY <1>1, <1>2, <1>3, <1>4 DEF Next, hexa_button_scan, hexa_button_down

-----------------------------------------------------------------------------
(* The theorems.                                                           *)

(* The inductive invariant holds in every reachable state.                 *)
THEOREM Invariance == Spec => []IInv
  BY InitIInv, NextIInv, PTL DEF Spec

(* Counters stay between their ends (integ[i] is a uint8_t and never wraps)*)
(* and no bitmap gets a bit of a button that does not exist.               *)
THEOREM TypeCorrect == Spec => []TypeOK
  <1>1. IInv => TypeOK
    BY DEF IInv
  <1>. QED
    BY <1>1, Invariance, PTL

(* The critical section of hexa_button_pressed is enough for no press to   *)
(* be lost, wherever hexa_button_scan is called from.                      *)
THEOREM PressesKept == Spec => []NothingLost
  <1>1. IInv => NothingLost
    BY DEF IInv
  <1>. QED
    BY <1>1, Invariance, PTL

(* Scanned from the same loop or from an interrupt handler, a press is     *)
(* never reported twice.                                                   *)
THEOREM NotTwice == Spec => []ReportedOnce
  <1>1. IInv => ReportedOnce
    BY DEF IInv, CopiesHold, NoEcho, ReportedOnce, p
  <1>. QED
    BY <1>1, Invariance, PTL

(* DEBOUNCE_MAX equal polls always settle the state of a button.           *)
THEOREM Settles == Spec => []SettlesInTime
  <1>1. ASSUME IInv, NEW b \in Buttons, run[b] = DEBOUNCE_MAX
        PROVE  hexa_button_down(b) <=> level[b]
    BY <1>1, MaxAssumption DEF IInv, TypeOK, CounterFits, hexa_button_down
  <1>2. IInv => SettlesInTime
    BY <1>1 DEF SettlesInTime
  <1>. QED
    BY <1>2, Invariance, PTL

(* No bounce makes the state of a button change twice within DEBOUNCE_MAX  *)
(* polls.                                                                  *)
THEOREM BouncesFiltered == Spec => ChangesApart
  BY Invariance, NextIInv, PTL DEF Spec, ChangesApart
=============================================================================
