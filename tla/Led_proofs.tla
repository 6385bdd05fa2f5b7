----------------------------- MODULE Led_proofs -----------------------------
(***************************************************************************)
(* Proofs about Led, for any number of callers and any requests: the types *)
(* with the ownership of led_mutex, that the three writes of one           *)
(* led_set_color are never mixed with those of another, and that a call    *)
(* that nothing disturbs leaves the LED set up for its state.              *)
(***************************************************************************)
EXTENDS Led, TLAPS

(***************************************************************************)
(* While a task is inside led_set_color, the pins it has written already   *)
(* have its colour; when no task is, they have the colour last completed.  *)
(* The animation task never gets there: it waits for its own mutex.        *)
(***************************************************************************)
PinsInv ==
    /\ led_mutex \notin Callers => pins = RGB[shown]
    /\ \A c \in Callers :
        /\ pc[c] = "red" => pins = RGB[shown]
        /\ pc[c] \in {"green", "blue"} => pins.r = RGB[color[c]].r
        /\ pc[c] = "blue" => pins.g = RGB[color[c]].g
    /\ pc[Animation] \in {"idle", "take", "give"}

IInv == TypeOK /\ PinsInv

\* The table of colours: every colour has its levels.
LEMMA RGBType == RGB \in [Colors -> Levels]
<1>1. DOMAIN RGB = Colors
  BY DEF RGB, Colors
<1>2. ASSUME NEW k \in Colors PROVE RGB[k] \in Levels
  BY <1>2 DEF RGB, Colors, Levels
<1>3. RGB = [k \in Colors |-> RGB[k]]
  BY <1>1 DEF RGB
<1>4. QED
  BY <1>2, <1>3

\* The switch gives each state a colour and an animation.
LEMMA SwitchType ==
  ASSUME NEW s \in SystemStates
  PROVE  ColorOf[s] \in Colors /\ AnimationOf[s] \in Animations
  BY DEF SystemStates, ColorOf, AnimationOf, Colors, Animations

\* The part of TypeOK about the tasks and the mutex, and the rest.
OwnerOK ==
    /\ led_mutex \in Procs \cup {"free"}
    /\ pc \in [Procs -> Pcs]
    /\ overdue \subseteq {c \in Callers : pc[c] \in Waiting}
    /\ \A c \in Callers : (led_mutex = c) <=> (pc[c] \in Writing)
    /\ (led_mutex = Animation) <=> (pc[Animation] # "idle")

DataOK ==
    /\ current_system_state \in SystemStates
    /\ animation_running \in BOOLEAN
    /\ current_animation \in Animations
    /\ animation_color \in Colors
    /\ animation_counter \in 0..3
    /\ pins \in Levels
    /\ request \in [Callers -> SystemStates]
    /\ color \in [Procs -> Colors]
    /\ shown \in Colors
    /\ undisturbed \in BOOLEAN

LEMMA TypeParts == TypeOK <=> OwnerOK /\ DataOK
  BY Zenon DEF TypeOK, OwnerOK, DataOK

LEMMA InitInv == Init => IInv
<1> SUFFICES ASSUME Init PROVE IInv
  OBVIOUS
<1>1. "OFF" \in Colors /\ "IDLE" \in SystemStates /\ RGB["OFF"] \in Levels
  BY RGBType DEF Colors, SystemStates
<1>2. OwnerOK
  BY LedAssumption DEF Init, OwnerOK, Procs, Pcs, Waiting, Writing
<1>3. /\ animation_running \in BOOLEAN /\ undisturbed \in BOOLEAN
      /\ animation_counter \in 0..3
  <2>1. animation_counter \in 0..3
    BY DEF Init
  <2>2. QED
    BY <2>1, Zenon DEF Init
<1>4. DataOK
  BY <1>1, <1>3, Zenon DEF Init, DataOK, Animations
<1>5. PinsInv
  BY DEF Init, PinsInv, Procs
<1>6. QED
  BY <1>2, <1>4, <1>5, TypeParts DEF IInv

\* The ownership of the mutex, step by step.
LEMMA OwnerStep == IInv /\ [Next]_vars => OwnerOK'
<1> SUFFICES ASSUME IInv, [Next]_vars PROVE OwnerOK'
  OBVIOUS
<1>o. OwnerOK /\ PinsInv
  BY TypeParts DEF IInv
<1>p. Animation \in Procs /\ Animation \notin Callers /\ "free" \notin Procs
  BY LedAssumption DEF Procs
<1>q. pc[Animation] \in {"idle", "take", "give"}
  BY <1>o DEF PinsInv
<1> USE <1>o, <1>p DEF OwnerOK, Waiting, Writing, Pcs
<1>1. ASSUME NEW c \in Callers, SetSystemState(c) PROVE OwnerOK'
  <2>1. PICK l \in {"stop", "start"} : Goto(c, l)
    BY <1>1 DEF SetSystemState
  <2>2. pc[c] = "idle" /\ UNCHANGED <<led_mutex, overdue>>
    BY <1>1 DEF SetSystemState
  <2>3. QED
    BY <2>1, <2>2 DEF Goto, Procs
<1>2. ASSUME NEW c \in Callers, Caller(c) PROVE OwnerOK'
  <2>1. PICK l \in {"take", "idle"} : Goto(c, l)
    BY <1>2 DEF Caller, StartAnimation, StartTimesOut, StopAnimation,
                StopTimesOut, TakeTimesOut
  <2>2. pc[c] \in Waiting /\ UNCHANGED led_mutex /\ overdue' = overdue \ {c}
    BY <1>2 DEF Caller, StartAnimation, StartTimesOut, StopAnimation,
                StopTimesOut, TakeTimesOut, WaitEnds
  <2>3. QED
    BY <2>1, <2>2 DEF Goto, Procs
<1>3. ASSUME NEW p \in Procs, SetColor(p) PROVE OwnerOK'
  <2>1. CASE TakeMutex(p)
    <3>1. p \in Callers
      BY <2>1 DEF TakeMutex, Procs
    <3>2. QED
      BY <2>1, <3>1 DEF TakeMutex, Goto, WaitEnds, Procs
  <2>2. CASE WriteRed(p) \/ WriteGreen(p)
    <3>1. p \in Callers
      BY <2>2, <1>q DEF WriteRed, WriteGreen, Procs
    <3>2. QED
      BY <2>2, <3>1 DEF WriteRed, WriteGreen, Goto, Procs
  <2>3. CASE WriteBlue(p)
    <3>1. p \in Callers
      BY <2>3, <1>q DEF WriteBlue, Procs
    <3>2. QED
      BY <2>3, <3>1 DEF WriteBlue, Goto, Procs
  <2>4. QED
    BY <1>3, <2>1, <2>2, <2>3 DEF SetColor
<1>4. CASE AnimationTask
  BY <1>4 DEF AnimationTask, AnimationStep, AnimationTimesOut, AnimationGives,
              Goto, Procs
<1>5. CASE UNCHANGED vars
  BY <1>5 DEF vars
<1>6. QED
  BY <1>1, <1>2, <1>3, <1>4, <1>5 DEF Next

\* The data, step by step.
LEMMA DataStep == IInv /\ [Next]_vars => DataOK'
<1> SUFFICES ASSUME IInv, [Next]_vars PROVE DataOK'
  OBVIOUS
<1>d. DataOK
  BY TypeParts DEF IInv
<1>s. \A s \in SystemStates : ColorOf[s] \in Colors /\ AnimationOf[s] \in Animations
  BY SwitchType
<1>1. ASSUME NEW c \in Callers, SetSystemState(c) PROVE DataOK'
  <2>1. PICK s \in Requests : /\ current_system_state' = s
                              /\ request' = [request EXCEPT ![c] = s]
    BY <1>1 DEF SetSystemState
  <2>2. s \in SystemStates
    BY LedAssumption
  <2>3. request' \in [Callers -> SystemStates]
    BY <1>d, <2>1, <2>2 DEF DataOK
  <2>4. undisturbed' \in BOOLEAN
    BY <1>1, Zenon DEF SetSystemState
  <2>5. QED
    BY <1>d, <1>1, <2>1, <2>2, <2>3, <2>4, Zenon
       DEF SetSystemState, DataOK, animVars
<1>2. ASSUME NEW c \in Callers, Caller(c) PROVE DataOK'
  <2>1. request[c] \in SystemStates
    BY <1>d, <1>2 DEF DataOK
  <2>2. ColorOf[request[c]] \in Colors /\ AnimationOf[request[c]] \in Animations
    BY <2>1, <1>s
  <2>3. [color EXCEPT ![c] = ColorOf[request[c]]] \in [Procs -> Colors]
    BY <1>d, <2>2 DEF DataOK, Procs
  <2>4. CASE StartAnimation(c)
    <3>1. animation_counter' \in 0..3
      BY <2>4 DEF StartAnimation
    <3>2. QED
      BY <1>d, <2>2, <2>4, <3>1, Zenon DEF StartAnimation, DataOK
  <2>5. CASE StopAnimation(c)
    <3>1. "NONE" \in Animations
      BY DEF Animations
    <3>2. QED
      BY <1>d, <2>3, <2>5, <3>1, Zenon DEF StopAnimation, DataOK
  <2>6. CASE StartTimesOut(c) \/ TakeTimesOut(c)
    BY <1>d, <2>6, Zenon DEF StartTimesOut, TakeTimesOut, DataOK, animVars
  <2>7. CASE StopTimesOut(c)
    BY <1>d, <2>3, <2>7, Zenon DEF StopTimesOut, DataOK, animVars
  <2>8. QED
    BY <1>2, <2>4, <2>5, <2>6, <2>7, Zenon DEF Caller
<1>3. ASSUME NEW p \in Procs, SetColor(p) PROVE DataOK'
  <2>1. color[p] \in Colors
    BY <1>d DEF DataOK
  <2>2. RGB[color[p]] \in Levels
    BY <2>1, RGBType
  <2>3. pins' \in Levels /\ shown' \in Colors
    BY <1>d, <1>3, <2>1, <2>2
       DEF DataOK, Levels, SetColor, TakeMutex, WriteRed, WriteGreen, WriteBlue
  <2>4. UNCHANGED <<current_system_state, animVars, request, color, undisturbed>>
    BY <1>3, Zenon DEF SetColor, TakeMutex, WriteRed, WriteGreen, WriteBlue
  <2>5. QED
    BY <1>d, <2>3, <2>4, Zenon DEF DataOK, animVars
<1>4. CASE AnimationStep
  <2>1. StepColor \in Colors
    BY <1>d DEF StepColor, DataOK, Colors
  <2>2. color' \in [Procs -> Colors]
    BY <1>d, <1>4, <2>1 DEF AnimationStep, DataOK
  <2>3. QED
    BY <1>d, <1>4, <2>2, Zenon DEF AnimationStep, DataOK, animVars
<1>5. CASE AnimationTimesOut
  BY <1>d, <1>5, Zenon DEF AnimationTimesOut, DataOK, animVars
<1>6. CASE AnimationGives
  <2>1. animation_counter' \in 0..3
    BY <1>d, <1>6 DEF AnimationGives, DataOK
  <2>2. QED
    BY <1>d, <1>6, <2>1, Zenon DEF AnimationGives, DataOK
<1>7. CASE UNCHANGED vars
  BY <1>d, <1>7, Zenon DEF vars, DataOK, animVars
<1>8. QED
  BY <1>1, <1>2, <1>3, <1>4, <1>5, <1>6, <1>7, Zenon DEF Next, AnimationTask

\* The pins, step by step.
LEMMA PinsStep == IInv /\ [Next]_vars => PinsInv'
<1> SUFFICES ASSUME IInv, [Next]_vars PROVE PinsInv'
  OBVIOUS
<1>o. OwnerOK /\ DataOK /\ PinsInv
  BY TypeParts DEF IInv
<1>p. Animation \in Procs /\ Animation \notin Callers /\ "free" \notin Procs
  BY LedAssumption DEF Procs
<1>q. pc[Animation] \in {"idle", "take", "give"}
  BY <1>o DEF PinsInv
<1>c. pc \in [Procs -> Pcs] /\ color \in [Procs -> Colors] /\ pins \in Levels
  BY <1>o DEF OwnerOK, DataOK
\* A step of a caller that neither writes nor holds the mutex.
<1>1. ASSUME NEW c \in Callers, NEW l \in {"idle", "start", "stop", "take"},
             Goto(c, l), UNCHANGED <<led_mutex, pins, shown>>,
             \A d \in Callers : d # c => color'[d] = color[d]
      PROVE  PinsInv'
  BY <1>1, <1>o, <1>p, <1>c DEF PinsInv, Goto, Procs
<1>2. ASSUME NEW c \in Callers, SetSystemState(c) PROVE PinsInv'
  <2>1. PICK l \in {"stop", "start"} : Goto(c, l)
    BY <1>2 DEF SetSystemState
  <2>2. UNCHANGED <<led_mutex, pins, shown, color>>
    BY <1>2 DEF SetSystemState
  <2>3. QED
    BY <1>1, <2>1, <2>2
<1>3. ASSUME NEW c \in Callers, Caller(c) PROVE PinsInv'
  <2>1. PICK l \in {"take", "idle"} : Goto(c, l)
    BY <1>3 DEF Caller, StartAnimation, StartTimesOut, StopAnimation,
                StopTimesOut, TakeTimesOut
  <2>2. UNCHANGED <<led_mutex, pins, shown>>
    BY <1>3 DEF Caller, StartAnimation, StartTimesOut, StopAnimation,
                StopTimesOut, TakeTimesOut
  <2>3. \A d \in Callers : d # c => color'[d] = color[d]
    BY <1>3, <1>c DEF Caller, StartAnimation, StartTimesOut, StopAnimation,
                      StopTimesOut, TakeTimesOut, Procs
  <2>4. QED
    BY <1>1, <2>1, <2>2, <2>3
<1>4. ASSUME NEW p \in Procs, SetColor(p) PROVE PinsInv'
  <2>o. /\ led_mutex = Animation => pc[Animation] # "idle"
        /\ pc[Animation] # "idle" => led_mutex = Animation
        /\ \A c \in Callers : pc[c] \in Writing => led_mutex = c
    BY <1>o DEF OwnerOK
  <2>p. p \in Callers
    BY <1>4, <1>p, <1>q, <2>o
       DEF SetColor, TakeMutex, WriteRed, WriteGreen, WriteBlue, Procs
  <2>l. RGB[color[p]] \in Levels
    BY <1>c, RGBType
  <2>n. p # Animation /\ pc'[Animation] = pc[Animation]
    BY <1>4, <1>c, <1>p, <2>p
       DEF SetColor, TakeMutex, WriteRed, WriteGreen, WriteBlue, Goto
  <2>1. CASE TakeMutex(p)
    <3>1. pins = RGB[shown] /\ UNCHANGED <<pins, shown, color>>
      BY <2>1, <1>o, <1>p DEF TakeMutex, PinsInv, Procs
    <3>2. pc'[p] = "red" /\ led_mutex' = p /\ \A c \in Callers : c # p => pc'[c] = pc[c]
      BY <2>1, <1>c, <2>p DEF TakeMutex, Goto, Procs
    <3>3. \A c \in Callers : c # p => pc[c] \notin Writing
      BY <2>1, <2>o, <1>p DEF TakeMutex, Procs
    <3>4. QED
      BY <3>1, <3>2, <3>3, <2>n, <2>p, <1>q DEF PinsInv, Writing
  <2>2. CASE WriteRed(p) \/ WriteGreen(p)
    <3>1. led_mutex = p /\ led_mutex' = p /\ UNCHANGED <<shown, color>>
      BY <2>2, <2>o, <2>p DEF WriteRed, WriteGreen, Writing
    <3>2. \A c \in Callers : c # p => pc'[c] = pc[c] /\ pc[c] \notin Writing
      BY <2>2, <1>c, <2>o, <3>1 DEF WriteRed, WriteGreen, Goto, Procs
    <3>3. pc'[p] \in {"green", "blue"} /\ pins'.r = RGB[color[p]].r
      BY <2>2, <1>c, <1>o, <2>p, <2>l DEF WriteRed, WriteGreen, Goto, PinsInv, Levels, Procs
    <3>4. pc'[p] = "blue" => pins'.g = RGB[color[p]].g
      BY <2>2, <1>c, <2>p, <2>l DEF WriteRed, WriteGreen, Goto, Levels, Procs
    <3>5. QED
      BY <3>1, <3>2, <3>3, <3>4, <2>n, <2>p, <1>q DEF PinsInv, Writing
  <2>3. CASE WriteBlue(p)
    <3>1. led_mutex = p /\ led_mutex' = "free" /\ shown' = color[p]
      BY <2>3, <2>o, <2>p DEF WriteBlue, Writing
    <3>2. /\ pc'[p] = "idle"
          /\ \A c \in Callers : c # p => pc'[c] = pc[c] /\ pc[c] \notin Writing
      BY <2>3, <1>c, <2>o, <2>p, <2>n, <3>1 DEF WriteBlue, Goto, Procs
    <3>3. pins.r = RGB[color[p]].r /\ pins.g = RGB[color[p]].g
      BY <2>3, <1>o, <2>p DEF WriteBlue, PinsInv
    <3>4. pins' = RGB[shown']
      BY <2>3, <3>1, <3>3, <1>c, <2>l DEF WriteBlue, Levels
    <3>5. QED
      BY <3>2, <3>4, <2>n, <1>q DEF PinsInv, Writing
  <2>4. QED
    BY <1>4, <2>1, <2>2, <2>3 DEF SetColor
<1>5. CASE AnimationTask
  <2>1. /\ UNCHANGED <<pins, shown>>
        /\ led_mutex' \notin Callers => pins = RGB[shown]
    BY <1>5, <1>o, <1>p
       DEF AnimationTask, AnimationStep, AnimationTimesOut, AnimationGives,
           PinsInv, OwnerOK, Procs
  <2>2. \A c \in Callers : pc'[c] = pc[c] /\ color'[c] = color[c]
    BY <1>5, <1>c, <1>p
       DEF AnimationTask, AnimationStep, AnimationTimesOut, AnimationGives,
           Goto, Procs
  <2>3. pc'[Animation] \in {"idle", "take", "give"}
    BY <1>5, <1>c, <1>p
       DEF AnimationTask, AnimationStep, AnimationTimesOut, AnimationGives, Goto
  <2>4. QED
    BY <2>1, <2>2, <2>3, <1>o DEF PinsInv
<1>6. CASE UNCHANGED vars
  BY <1>6, <1>o DEF vars, PinsInv
<1>7. QED
  BY <1>2, <1>3, <1>4, <1>5, <1>6 DEF Next

LEMMA InvCorrect == Spec => []IInv
<1>1. IInv /\ [Next]_vars => IInv'
  BY OwnerStep, DataStep, PinsStep, TypeParts DEF IInv, TypeOK, OwnerOK, DataOK
<1>2. QED
  BY <1>1, InitInv, PTL DEF Spec

(***************************************************************************)
(* The types, and mutual exclusion: led_mutex is held by the task that     *)
(* writes the pins, or by the animation task during its step.              *)
(***************************************************************************)
THEOREM LedTypeCorrect == Spec => []TypeOK
<1>1. IInv => TypeOK
  BY DEF IInv
<1>2. QED
  BY <1>1, InvCorrect, PTL

(***************************************************************************)
(* The pins never keep a mixture of two calls' colours, whatever the       *)
(* number of tasks that set the LED and however their waits time out.      *)
(***************************************************************************)
THEOREM PinsCorrect == Spec => []PinsWhole
<1>1. IInv => PinsWhole
  <2> SUFFICES ASSUME IInv, \A p \in Procs : pc[p] \notin {"green", "blue"}
               PROVE  pins = RGB[shown]
    BY DEF PinsWhole
  <2>1. CASE led_mutex \notin Callers
    BY <2>1 DEF IInv, PinsInv
  <2>2. CASE led_mutex \in Callers
    <3>1. pc[led_mutex] = "red"
      BY <2>2 DEF IInv, TypeOK, Writing, Procs
    <3>2. QED
      BY <2>2, <3>1 DEF IInv, PinsInv
  <2>3. QED
    BY <2>1, <2>2
<1>2. QED
  BY <1>1, InvCorrect, PTL

-----------------------------------------------------------------------------
(* An undisturbed call *)

\* A caller that sets an unanimated state has come past led_stop_animation.
Solid(c) ==
    /\ AnimationOf[request[c]] = "NONE"
    /\ pc[c] # "stop" => /\ ~animation_running /\ current_animation = "NONE"
                         /\ color[c] = ColorOf[request[c]]

(***************************************************************************)
(* As long as no call has met another or timed out, the one caller that is *)
(* under way sets the state that led_get_system_state reports, and what it *)
(* has done so far is what this state asks for.                            *)
(***************************************************************************)
UndisturbedInv ==
    /\ \A c, d \in Callers : pc[c] # "idle" /\ pc[d] # "idle" => c = d
    /\ \A c \in Callers : pc[c] # "idle" =>
        /\ request[c] = current_system_state
        /\ IF pc[c] = "start" THEN AnimationOf[request[c]] # "NONE" ELSE Solid(c)
    /\ Quiet => Displays(current_system_state)

QuietInv == undisturbed => UndisturbedInv

\* The call that is under way returns, and its state is shown.
LEMMA CallReturns ==
  ASSUME UndisturbedInv, pc \in [Procs -> Pcs],
         NEW c \in Callers, pc[c] # "idle", Goto(c, "idle"),
         UNCHANGED <<current_system_state, request>>, Displays(request[c])'
  PROVE  UndisturbedInv'
<1>1. /\ pc'[c] = "idle" /\ c \in Procs
      /\ \A d \in Callers : pc'[d] = "idle"
  BY DEF Goto, Procs, UndisturbedInv
<1>2. Displays(current_system_state)'
  <2>1. request[c] = current_system_state
    BY DEF UndisturbedInv
  <2>2. request'[c] = current_system_state'
    BY <2>1
  <2>3. QED
    BY <2>2, Zenon
<1>3. QED
  BY <1>1, <1>2 DEF UndisturbedInv

LEMMA QuietStep == IInv /\ IInv' /\ QuietInv /\ [Next]_vars => QuietInv'
<1> SUFFICES ASSUME IInv, IInv', QuietInv, [Next]_vars, undisturbed'
             PROVE  UndisturbedInv'
  BY DEF QuietInv
<1>o. OwnerOK /\ DataOK /\ PinsInv /\ PinsInv'
  BY TypeParts DEF IInv
<1>p. Animation \in Procs /\ Animation \notin Callers
  BY LedAssumption DEF Procs
<1>c. /\ pc \in [Procs -> Pcs] /\ color \in [Procs -> Colors]
      /\ request \in [Callers -> SystemStates]
  BY <1>o DEF OwnerOK, DataOK
<1>1. ASSUME NEW c \in Callers, SetSystemState(c) PROVE UndisturbedInv'
  <2>1. PICK s \in Requests :
          /\ current_system_state' = s /\ request' = [request EXCEPT ![c] = s]
          /\ Goto(c, IF AnimationOf[s] = "NONE" THEN "stop" ELSE "start")
    BY <1>1 DEF SetSystemState
  <2>2. \A d \in Callers : pc[d] = "idle"
    BY <1>1, Zenon DEF SetSystemState
  <2>3. \A d \in Callers : d # c => pc'[d] = "idle"
    BY <2>1, <2>2, <1>c DEF Goto, Procs
  <2>4. /\ request'[c] = current_system_state' /\ pc'[c] # "idle"
        /\ pc'[c] = "start" => AnimationOf[request'[c]] # "NONE"
        /\ pc'[c] # "start" => pc'[c] = "stop" /\ AnimationOf[request'[c]] = "NONE"
    BY <2>1, <1>c DEF Goto, Procs
  <2>5. QED
    BY <2>3, <2>4 DEF UndisturbedInv, Solid, Quiet
\* Any other step: the latest call was undisturbed before it, too.
<1>2. ASSUME undisturbed, NEW c \in Callers, StartAnimation(c)
      PROVE  UndisturbedInv'
  <2>1. UndisturbedInv /\ AnimationOf[request[c]] # "NONE"
    BY <1>2 DEF QuietInv, UndisturbedInv, StartAnimation
  <2>2. Displays(request[c])'
    BY <1>2, <2>1 DEF StartAnimation, Displays
  <2>3. QED
    BY <1>2, <1>c, <2>1, <2>2, CallReturns DEF StartAnimation
<1>3. ASSUME undisturbed, NEW c \in Callers, StopAnimation(c)
      PROVE  UndisturbedInv'
  <2>1. UndisturbedInv /\ Solid(c)
    BY <1>3 DEF QuietInv, UndisturbedInv, StopAnimation
  <2>2. /\ pc'[c] = "take" /\ \A d \in Callers : d # c => pc'[d] = "idle"
        /\ color'[c] = ColorOf[request[c]]
    BY <1>3, <1>c, <2>1 DEF UndisturbedInv, StopAnimation, Goto, Procs
  <2>3. /\ ~animation_running' /\ current_animation' = "NONE"
        /\ UNCHANGED <<request, current_system_state>>
        /\ request[c] = current_system_state
    BY <1>3, <2>1 DEF UndisturbedInv, StopAnimation
  <2>4. QED
    BY <2>1, <2>2, <2>3 DEF UndisturbedInv, Solid, Quiet
<1>4. ASSUME undisturbed, NEW p \in Procs, SetColor(p)
      PROVE  UndisturbedInv'
  <2>p. p \in Callers
    <3>1. /\ led_mutex = Animation <=> pc[Animation] # "idle"
          /\ pc[Animation] \in {"idle", "take", "give"}
      BY <1>o DEF OwnerOK, PinsInv
    <3>2. Animation # "free"
      BY LedAssumption, <1>p
    <3>3. QED
      BY <1>4, <3>1, <3>2
         DEF SetColor, TakeMutex, WriteRed, WriteGreen, WriteBlue, Procs
  <2>1. UndisturbedInv /\ Solid(p) /\ pc[p] \notin {"idle", "start", "stop"}
    BY <1>4, <2>p DEF QuietInv, UndisturbedInv, SetColor, TakeMutex, WriteRed,
                      WriteGreen, WriteBlue
  <2>2. UNCHANGED <<current_system_state, animVars, request, color>>
    BY <1>4, Zenon DEF SetColor, TakeMutex, WriteRed, WriteGreen, WriteBlue
  <2>3. CASE WriteBlue(p)
    <3>1. /\ Goto(p, "idle") /\ shown' = color[p] /\ led_mutex' = "free"
      BY <2>3, <2>p, <1>p DEF WriteBlue
    <3>2. pins' = RGB[shown']
      BY <3>1, <1>o, LedAssumption DEF PinsInv, Procs
    <3>3. Displays(request[p])'
      <4>1. /\ animation_running' = FALSE /\ current_animation' = "NONE"
            /\ AnimationOf[request'[p]] = "NONE"
        <5>1. animation_running \in BOOLEAN
          BY <1>o, Zenon DEF DataOK
        <5>2. QED
          BY <2>1, <2>2, <5>1 DEF Solid, animVars
      <4>2. pins' = RGB[ColorOf[request'[p]]]
        BY <2>1, <2>2, <3>1, <3>2 DEF Solid
      <4>3. QED
        BY <4>1, <4>2, Zenon DEF Displays
    <3>4. QED
      BY <2>1, <2>2, <2>p, <3>1, <3>3, <1>c, CallReturns
  <2>4. CASE TakeMutex(p) \/ WriteRed(p) \/ WriteGreen(p)
    <3>1. /\ pc'[p] \in Writing
          /\ \A d \in Callers : d # p => pc'[d] = "idle"
      BY <2>4, <2>p, <2>1, <1>c
         DEF TakeMutex, WriteRed, WriteGreen, Goto, Writing, Procs, UndisturbedInv
    <3>2. QED
      BY <2>1, <2>2, <2>p, <3>1 DEF UndisturbedInv, Solid, Quiet, Writing, animVars
  <2>5. QED
    BY <1>4, <2>3, <2>4 DEF SetColor
<1>5. ASSUME undisturbed, AnimationTask PROVE UndisturbedInv'
  <2>1. \A c \in Callers : pc'[c] = pc[c] /\ color'[c] = color[c]
    BY <1>5, <1>c, <1>p
       DEF AnimationTask, AnimationStep, AnimationTimesOut, AnimationGives,
           Goto, Procs
  <2>2. UNCHANGED <<current_system_state, animation_running, current_animation,
                    animation_color, pins, request>>
    BY <1>5, Zenon
       DEF AnimationTask, AnimationStep, AnimationTimesOut, AnimationGives, animVars
  <2>3. UndisturbedInv
    BY <1>5 DEF QuietInv
  <2>4. QED
    BY <2>1, <2>2, <2>3 DEF UndisturbedInv, Solid, Quiet, Displays
<1>6. CASE UNCHANGED vars
  BY <1>6 DEF vars, animVars, QuietInv, UndisturbedInv, Solid, Quiet, Displays
<1>7. ASSUME ~undisturbed, ~(\E c \in Callers : SetSystemState(c))
      PROVE  FALSE
  BY <1>7 DEF Next, Caller, SetColor, AnimationTask, vars, StartAnimation,
              StartTimesOut, StopAnimation, StopTimesOut, TakeTimesOut,
              TakeMutex, WriteRed, WriteGreen, WriteBlue, AnimationStep,
              AnimationTimesOut, AnimationGives
<1>8. ASSUME NEW c \in Callers,
             StartTimesOut(c) \/ StopTimesOut(c) \/ TakeTimesOut(c)
      PROVE  FALSE
  BY <1>8, Zenon DEF StartTimesOut, StopTimesOut, TakeTimesOut
<1>9. QED
  BY <1>1, <1>2, <1>3, <1>4, <1>5, <1>6, <1>7, <1>8 DEF Next, Caller

(***************************************************************************)
(* A call that meets no other and gets the mutex when it asks for it       *)
(* leaves the LED set up for its state, whatever the animation task does   *)
(* in between and however many tasks there are that might have called.     *)
(***************************************************************************)
THEOREM QuietCorrect == Spec => []QuietDisplay
<1>1. Init => QuietInv
  <2> SUFFICES ASSUME Init PROVE UndisturbedInv
    BY DEF QuietInv
  <2>1. \A c \in Callers : pc[c] = "idle"
    BY DEF Init, Procs
  <2>2. AnimationOf["IDLE"] = "NONE" /\ ColorOf["IDLE"] = "OFF"
    BY DEF AnimationOf, ColorOf
  <2>3. Displays(current_system_state)
    BY <2>2, Zenon DEF Init, Displays
  <2>4. QED
    BY <2>1, <2>3 DEF UndisturbedInv
<1>2. QuietInv => QuietDisplay
  BY Zenon DEF QuietInv, UndisturbedInv, QuietDisplay
<1>3. QED
  BY <1>1, <1>2, InvCorrect, QuietStep, PTL DEF Spec
=============================================================================
