----------------------------- MODULE HexaButton -----------------------------
(***************************************************************************)
(* The buttons of the board (drivers/src/hexa_button.c): hexa_button_scan  *)
(* debounces the pins and notes presses, hexa_button_pressed takes them.   *)
(*                                                                         *)
(* The two share the bitmap pressed.  A statement such as pressed |= mask  *)
(* is a load and a store, and the other side may run in between unless     *)
(* something prevents it; what does depends on where scan is called from.  *)
(***************************************************************************)
EXTENDS Naturals

CONSTANTS
  BOARD_BTN_COUNT,
  DEBOUNCE_MAX,
  Modes          \* the ways scan is called in the programs considered

(* "loop": the main loop or task that also takes the presses (demo.c);     *)
(* "interrupt": an interrupt handler; "task": a task of its own.           *)
AllModes == {"loop", "interrupt", "task"}

ASSUME CountAssumption == BOARD_BTN_COUNT \in Nat \ {0}
ASSUME MaxAssumption   == DEBOUNCE_MAX \in Nat \ {0}
ASSUME ModesAssumption == Modes \subseteq AllModes

Buttons == 0 .. BOARD_BTN_COUNT - 1

VARIABLES
  mode,          \* where scan is called from, the same all along
  integ,         \* integ[i]: the debounce counter of button i
  state,         \* the buttons that are down, a bitmap
  pressed,       \* the buttons whose press nobody has taken yet, a bitmap
  i,             \* scan: the button it is at; BOARD_BTN_COUNT: not in scan
  step,          \* scan: the statement it is at
  loaded,        \* scan: the value of pressed it has loaded
  ask,           \* pressed: where hexa_button_pressed is
  n,             \* pressed: its argument
  copy,          \* pressed: the value of pressed it has loaded
  level,         \* history: the level button b had at its last poll
  run,           \* history: how many polls in a row had it, up to the maximum
  quiet,         \* history: polls since state changed for b, up to the maximum
  fresh          \* history: presses noted and not yet answered with true

scanVars == <<integ, state, i, step, loaded, level, run, quiet>>
askVars  == <<ask, n, copy>>
vars     == <<mode, scanVars, askVars, pressed, fresh>>

-----------------------------------------------------------------------------
Init ==
  /\ mode \in Modes
  /\ integ = [b \in Buttons |-> 0]
  /\ state = {}
  /\ pressed = {}
  /\ i = BOARD_BTN_COUNT
  /\ step = "poll"
  /\ loaded = {}
  /\ ask = "out"
  /\ n = 0
  /\ copy = {}
  /\ level = [b \in Buttons |-> FALSE]
  /\ run = [b \in Buttons |-> 0]
  /\ quiet = [b \in Buttons |-> DEBOUNCE_MAX]
  /\ fresh = {}

hexa_button_down(b) == b \in state

-----------------------------------------------------------------------------
(* Who may run.  The critical section of hexa_button_pressed masks the     *)
(* interrupts, and with them the tick that would switch tasks.  A handler  *)
(* runs to its end before the program goes on, and a loop does one thing   *)
(* after the other.                                                        *)

(* Fault: HEXA_CRIT_ENTER is forgotten.                                    *)
ScanMayAlwaysRun == mode = "loop" => ask = "out"

ScanMayRun == /\ ask \notin {"load", "store"}
              /\ mode = "loop" => ask = "out"

InScan == i # BOARD_BTN_COUNT

AskMayRun == mode \in {"loop", "interrupt"} => ~InScan

-----------------------------------------------------------------------------
(* hexa_button_scan.                                                       *)

AtMost(k) == IF k < DEBOUNCE_MAX THEN k ELSE DEBOUNCE_MAX

(* Fault: the counter starts again at the first opposite poll.             *)
CountReset(count, down) == IF down THEN AtMost(count + 1) ELSE 0

(* Fault: the counter goes past its end, and down again from there.        *)
CountPast(count, down) ==
  IF down THEN (IF count <= DEBOUNCE_MAX THEN count + 1 ELSE count)
          ELSE IF count > 0 THEN count - 1 ELSE count

Count(count, down) ==
  IF down THEN AtMost(count + 1) ELSE IF count > 0 THEN count - 1 ELSE 0

ScanBegins ==
  /\ ScanMayRun
  /\ ~InScan
  /\ i' = 0
  /\ step' = "poll"
  /\ UNCHANGED <<mode, integ, state, pressed, loaded, askVars, level, run,
                 quiet, fresh>>

(* The loop goes on with the next button; after the last, scan returns.    *)
NextButton == i' = i + 1 /\ step' = "poll"

(* The pin is read, the counter follows, and state follows the counter     *)
(* when it is at one of its ends.                                          *)
Poll ==
  /\ ScanMayRun
  /\ InScan
  /\ step = "poll"
  /\ \E down \in BOOLEAN :
       LET count   == Count(integ[i], down)
           becomes == CASE count = DEBOUNCE_MAX -> state \cup {i}
                        [] count # DEBOUNCE_MAX /\ count = 0 -> state \ {i}
                        [] OTHER -> state
       IN /\ integ' = [integ EXCEPT ![i] = count]
          /\ state' = becomes
          /\ IF i \in becomes /\ i \notin state
               THEN step' = "load" /\ UNCHANGED i
               ELSE NextButton
          /\ level' = [level EXCEPT ![i] = down]
          /\ run' = [run EXCEPT ![i] = IF down = level[i] THEN AtMost(@ + 1)
                                                          ELSE 1]
          /\ quiet' = [quiet EXCEPT ![i] = IF becomes = state THEN AtMost(@ + 1)
                                                              ELSE 0]
  /\ UNCHANGED <<mode, pressed, loaded, askVars, fresh>>

(* pressed |= mask: the load ...                                           *)
LoadPressed ==
  /\ ScanMayRun
  /\ step = "load"
  /\ loaded' = pressed
  /\ step' = "store"
  /\ UNCHANGED <<mode, integ, state, pressed, i, askVars, level, run, quiet,
                 fresh>>

(* ... and the store, with which the press is noted.                       *)
StorePressed ==
  /\ ScanMayRun
  /\ step = "store"
  /\ pressed' = loaded \cup {i}
  /\ fresh' = fresh \cup {i}
  /\ NextButton
  /\ UNCHANGED <<mode, integ, state, loaded, askVars, level, run, quiet>>

hexa_button_scan == ScanBegins \/ Poll \/ LoadPressed \/ StorePressed

-----------------------------------------------------------------------------
(* hexa_button_pressed, called for any button in any order.  A number out  *)
(* of range is answered with false and changes nothing.                    *)

HEXA_CRIT_ENTER(b) ==
  /\ AskMayRun
  /\ ask = "out"
  /\ ask' = "load"
  /\ n' = b
  /\ UNCHANGED <<mode, scanVars, pressed, copy, fresh>>

ReadPressed ==
  /\ AskMayRun
  /\ ask = "load"
  /\ copy' = pressed
  /\ ask' = "store"
  /\ UNCHANGED <<mode, scanVars, pressed, n, fresh>>

(* Fault: the press is reported and left where it is.                      *)
ClearNothing == copy

Cleared == copy \ {n}

(* Fault: the bit is looked at after it was cleared.                       *)
ReadAfterClear == n \in Cleared

(* The answer: TRUE reports a press.                                       *)
p == n \in copy

ClearPressed ==
  /\ AskMayRun
  /\ ask = "store"
  /\ pressed' = Cleared
  /\ ask' = "exit"
  /\ fresh' = IF p THEN fresh \ {n} ELSE fresh
  /\ UNCHANGED <<mode, scanVars, n, copy>>

(* The section is left and the answer returned.                            *)
HEXA_CRIT_EXIT ==
  /\ AskMayRun
  /\ ask = "exit"
  /\ ask' = "out"
  /\ copy' = {}
  /\ n' = 0
  /\ UNCHANGED <<mode, scanVars, pressed, fresh>>

InPressed == ReadPressed \/ ClearPressed \/ HEXA_CRIT_EXIT

hexa_button_pressed(b) == HEXA_CRIT_ENTER(b) \/ InPressed

-----------------------------------------------------------------------------
Next == hexa_button_scan \/ \E b \in Buttons : hexa_button_pressed(b)

Spec == Init /\ [][Next]_vars

(* The program keeps asking for every button, as the loop of demo.c does,  *)
(* and gets to run in spite of the scans between; a scan comes to its end. *)
FairSpec == /\ Spec
            /\ WF_vars(InScan /\ hexa_button_scan)
            /\ SF_vars(InPressed)
            /\ \A b \in Buttons : SF_vars(HEXA_CRIT_ENTER(b))

-----------------------------------------------------------------------------
(* Properties.                                                             *)

(* Counters stay within their ends and bitmaps within the board's buttons. *)
TypeOK ==
  /\ mode \in Modes
  /\ integ \in [Buttons -> 0 .. DEBOUNCE_MAX]
  /\ state \subseteq Buttons
  /\ pressed \subseteq Buttons
  /\ i \in 0 .. BOARD_BTN_COUNT
  /\ step \in {"poll", "load", "store"}
  /\ loaded \subseteq Buttons
  /\ ask \in {"out", "load", "store", "exit"}
  /\ n \in Buttons
  /\ copy \subseteq Buttons
  /\ level \in [Buttons -> BOOLEAN]
  /\ run \in [Buttons -> 0 .. DEBOUNCE_MAX]
  /\ quiet \in [Buttons -> 0 .. DEBOUNCE_MAX]
  /\ fresh \subseteq Buttons

(* No press is lost, wherever scan is called from: a press that was noted  *)
(* and not yet reported is in pressed (docs/04-io.md on the critical       *)
(* section of hexa_button_pressed).                                        *)
NothingLost == fresh \subseteq pressed

(* A press is reported once: an answer of true stands for a press noted    *)
(* since the last such answer.  It holds when scan is called from the same *)
(* loop or from an interrupt handler.                                      *)
ReportedOnce == mode # "task" /\ ask = "store" /\ p => n \in fresh

(* The answer never lags: after DEBOUNCE_MAX polls with one level, state   *)
(* has that level, whatever the bounces before it.                         *)
SettlesInTime ==
  \A b \in Buttons : run[b] = DEBOUNCE_MAX => (hexa_button_down(b) <=> level[b])

(* Bounces are filtered: state does not change twice for one button within *)
(* DEBOUNCE_MAX polls.                                                     *)
ChangesApart ==
  [][\A b \in Buttons :
       hexa_button_down(b)' # hexa_button_down(b) => quiet[b] + 1 >= DEBOUNCE_MAX]_vars

(* Every press that was noted is reported, if the program keeps asking.    *)
PressIsReported == \A b \in Buttons : b \in fresh ~> b \notin fresh

(* include/hexa_button.h: hexa_button_pressed returns true exactly once    *)
(* for each press.  The comment makes no exception for a scan task.        *)
ExactlyOnce == ask = "store" /\ p => n \in fresh
=============================================================================
