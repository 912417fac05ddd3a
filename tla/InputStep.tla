------------------------------ MODULE InputStep -----------------------------
(***************************************************************************)
(* input_step.cpp: getInput() plays a list of steps, each a value and how  *)
(* many calls it lasts, and OnOffSwitch turns the input into button states *)
(* that last four updates.                                                 *)
(***************************************************************************)
EXTENDS Naturals, Sequences

CONSTANTS
  StepLists,   \* the lists played
  NbCalls      \* the turns of main's loop, 30 in the code

ASSUME StepAssumption == StepLists \subseteq Seq([v : {0, 1}, c : Nat \ {0}]) \ {<<>>}

VARIABLES
  step_list,       \* a member of StepLists, the same all the time
  s_cnt, c_cnt,
  on, state, count,
  inputs,          \* what the calls of getInput returned
  outputs          \* the states after the calls of update

stepVars == <<step_list, s_cnt, c_cnt, on, state, count, inputs, outputs>>

StepInit == /\ step_list \in StepLists
            /\ s_cnt = 0 /\ c_cnt = 0
            /\ on = 0 /\ state = "Off" /\ count = 0
            /\ inputs = <<>> /\ outputs = <<>>

-----------------------------------------------------------------------------
\* The step getInput is at after this call, and the call's count in it.
Step(k) == step_list[k + 1]

\* Mutant of LastCall: c_cnt >= si.c.
LastCallLate == c_cnt >= Step(s_cnt).c

LastCall == c_cnt >= Step(s_cnt).c - 1
LastStep == s_cnt >= Len(step_list) - 1

GetInput == /\ s_cnt' = IF LastCall /\ ~LastStep THEN s_cnt + 1 ELSE s_cnt
            /\ c_cnt' = CASE ~LastCall -> c_cnt + 1
                          [] LastCall /\ ~LastStep -> 0
                          [] OTHER -> c_cnt
            /\ inputs' = Append(inputs, [v |-> Step(s_cnt').v, more |-> ~LastCall \/ ~LastStep])

\* What is left of count when update() tests it a second time.
Left == IF count > 0 THEN count - 1 ELSE 0

\* Mutant of Update: a press is noticed while the button is held.
UpdateEager(pressed) ==
  \/ /\ pressed = 1 /\ count' = 4 /\ state' = "On"
  \/ /\ pressed # 1 /\ Left = 0 /\ count' = 0 /\ state' = IF count > 0 THEN "Off" ELSE state
  \/ /\ pressed # 1 /\ Left > 0 /\ count' = Left /\ state' = "Hold"

\* void update(), on being pressed
Update(pressed) ==
  \/ /\ Left = 0 /\ pressed = 1 /\ count' = 4 /\ state' = "On"
  \/ /\ Left = 0 /\ pressed # 1 /\ count' = 0 /\ state' = IF count > 0 THEN "Off" ELSE state
  \/ /\ Left > 0 /\ count' = Left /\ state' = "Hold"

\* One turn of main's loop: getInput(), On() or Off(), update().
StepNext == /\ Len(inputs) < NbCalls
            /\ GetInput
            /\ on' = Step(s_cnt').v
            /\ Update(on')
            /\ outputs' = Append(outputs, state')
            /\ UNCHANGED step_list

-----------------------------------------------------------------------------
StepTypeOK == /\ s_cnt \in 0 .. Len(step_list) - 1 /\ c_cnt \in Nat
              /\ on \in {0, 1} /\ state \in {"Off", "Hold", "On"} /\ count \in 0 .. 4

\* How long the first k steps last.
Lasts[list \in StepLists, k \in 0 .. 10] == IF k = 0 THEN 0 ELSE Lasts[list, k - 1] + list[k].c
StepAt(n) == CHOOSE k \in DOMAIN step_list : Lasts[step_list, k - 1] < n /\ n <= Lasts[step_list, k]
Total == Lasts[step_list, Len(step_list)]

\* Every step lasts its count of calls, but the first one, which lasts one call
\* less; the last one lasts for ever, and only then is the result false
\* (input_step.cpp:25-45).
InputFollowsSteps == \A n \in DOMAIN inputs :
                       /\ inputs[n].more = (n < Total)
                       /\ inputs[n].v = step_list[StepAt(IF n < Total THEN n + 1 ELSE Total)].v

Recent(n) == \E k \in 1 .. n - 1 : k + 3 >= n /\ outputs[k] = "On"

\* A press is reported once, and the three updates after it say Hold whatever the
\* input; then the next press counts (input_step.cpp:66-86).
PressHolds == \A n \in DOMAIN outputs :
                outputs[n] = IF Recent(n) THEN "Hold" ELSE IF inputs[n].v = 1 THEN "On" ELSE "Off"
=============================================================================
