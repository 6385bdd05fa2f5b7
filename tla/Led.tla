--------------------------------- MODULE Led ---------------------------------
(***************************************************************************)
(* The RGB LED: led_set_system_state called from several tasks, the        *)
(* animation task, and the mutex they share.                               *)
(*                                                                         *)
(* led_mutex is a plain (not recursive) FreeRTOS mutex.  A task waits for  *)
(* it 100 ms at most and then carries on without having done its part, and *)
(* only the animation task keeps it that long: it calls led_set_color with *)
(* the mutex already in its hands.                                         *)
(*                                                                         *)
(* Time is kept only as far as it decides who times out: a wait can be     *)
(* over once the animation task's own, just as long, has ended since it    *)
(* began (overdue).  animation_speed is left out: when the next step of an *)
(* animation comes is a choice.                                            *)
(***************************************************************************)
EXTENDS Naturals

CONSTANTS
    Callers,     \* tasks that call led_set_system_state
    Animation,   \* led_animation_task
    Requests     \* bound: the system states the callers ask for

Procs == Callers \cup {Animation}

VARIABLES
    led_mutex,              \* "free" or the task that holds it
    current_system_state,
    animation_running,
    current_animation,
    animation_color,
    animation_counter,      \* modulo 4: blink has period 2 and pulse 4
    pins,                   \* the levels of the three GPIOs
    pc,                     \* where each task is
    request,                \* the state each caller sets
    overdue,                \* callers whose wait has lasted 100 ms
    color,                  \* the argument of each task's led_set_color
    shown,                  \* history: the colour last written completely
    undisturbed             \* history: the latest call met no other call
                            \* and no timeout

animVars == <<animation_running, current_animation, animation_color,
              animation_counter>>
vars == <<led_mutex, current_system_state, animVars, pins, pc, request,
          overdue, color, shown, undisturbed>>

-----------------------------------------------------------------------------
(* Data *)

RGB == [OFF     |-> [r |-> 0, g |-> 0, b |-> 0],
        RED     |-> [r |-> 1, g |-> 0, b |-> 0],
        GREEN   |-> [r |-> 0, g |-> 1, b |-> 0],
        BLUE    |-> [r |-> 0, g |-> 0, b |-> 1],
        YELLOW  |-> [r |-> 1, g |-> 1, b |-> 0],
        CYAN    |-> [r |-> 0, g |-> 1, b |-> 1],
        MAGENTA |-> [r |-> 1, g |-> 0, b |-> 1],
        WHITE   |-> [r |-> 1, g |-> 1, b |-> 1]]

Colors == {"OFF", "RED", "GREEN", "BLUE", "YELLOW", "CYAN", "MAGENTA", "WHITE"}
Levels == [r : 0..1, g : 0..1, b : 0..1]
Animations == {"NONE", "BLINK", "PULSE"}

\* led_set_system_state's switch: the animation and the colour of each state.
AnimationOf == [IDLE |-> "NONE", WIFI_CONNECTING |-> "BLINK",
    WIFI_CONNECTED |-> "NONE", WS_CONNECTING |-> "BLINK",
    WS_CONNECTED |-> "NONE", AUTH_WAITING |-> "PULSE", READY |-> "NONE",
    BUTTON_PRESSED |-> "NONE", RECORDING |-> "PULSE", PLAYING |-> "PULSE",
    ERROR |-> "BLINK"]

ColorOf == [IDLE |-> "OFF", WIFI_CONNECTING |-> "YELLOW",
    WIFI_CONNECTED |-> "GREEN", WS_CONNECTING |-> "CYAN",
    WS_CONNECTED |-> "GREEN", AUTH_WAITING |-> "YELLOW", READY |-> "GREEN",
    BUTTON_PRESSED |-> "MAGENTA", RECORDING |-> "MAGENTA", PLAYING |-> "BLUE",
    ERROR |-> "RED"]

SystemStates == {"IDLE", "WIFI_CONNECTING", "WIFI_CONNECTED", "WS_CONNECTING",
    "WS_CONNECTED", "AUTH_WAITING", "READY", "BUTTON_PRESSED", "RECORDING",
    "PLAYING", "ERROR"}

ASSUME LedAssumption ==
    /\ Animation \notin Callers
    /\ "free" \notin Procs
    /\ Requests \subseteq SystemStates

\* Inside led_set_color, between taking the mutex and giving it back.
Writing == {"red", "green", "blue"}
Waiting == {"start", "stop", "take"}
Pcs == {"idle", "give"} \cup Waiting \cup Writing

\* The types, and who holds the mutex: the task that writes the pins, or the
\* animation task through a whole step of its animation.
TypeOK ==
    /\ led_mutex \in Procs \cup {"free"}
    /\ current_system_state \in SystemStates
    /\ animation_running \in BOOLEAN
    /\ current_animation \in Animations
    /\ animation_color \in Colors
    /\ animation_counter \in 0..3
    /\ pins \in Levels
    /\ pc \in [Procs -> Pcs]
    /\ request \in [Callers -> SystemStates]
    /\ overdue \subseteq {c \in Callers : pc[c] \in Waiting}
    /\ color \in [Procs -> Colors]
    /\ shown \in Colors
    /\ undisturbed \in BOOLEAN
    /\ \A c \in Callers : (led_mutex = c) <=> (pc[c] \in Writing)
    /\ (led_mutex = Animation) <=> (pc[Animation] # "idle")

\* led_init has made the mutex, cleared the pins and created the task.
Init ==
    /\ led_mutex = "free"
    /\ current_system_state = "IDLE"
    /\ animation_running = FALSE
    /\ current_animation = "NONE"
    /\ animation_color = "OFF"
    /\ animation_counter = 0
    /\ pins = RGB["OFF"]
    /\ pc = [p \in Procs |-> "idle"]
    /\ request = [c \in Callers |-> "IDLE"]
    /\ overdue = {}
    /\ color = [p \in Procs |-> "OFF"]
    /\ shown = "OFF"
    /\ undisturbed = TRUE

Goto(p, l) == pc' = [pc EXCEPT ![p] = l]

\* xSemaphoreTake of caller c returns, with the mutex or without it.
WaitEnds(c) == overdue' = overdue \ {c}
TimeIsUp(c) == c \in overdue /\ led_mutex = Animation

-----------------------------------------------------------------------------
(* led_set_system_state *)

\* current_system_state is written before, and without, the mutex.
SetSystemState(c) ==
    /\ pc[c] = "idle"
    /\ \E s \in Requests :
        /\ current_system_state' = s
        /\ request' = [request EXCEPT ![c] = s]
        /\ Goto(c, IF AnimationOf[s] = "NONE" THEN "stop" ELSE "start")
    /\ undisturbed' = (\A d \in Callers : pc[d] = "idle")
    /\ UNCHANGED <<led_mutex, animVars, pins, overdue, color, shown>>

\* led_start_animation, the whole of its critical section.
StartAnimation(c) ==
    /\ pc[c] = "start" /\ led_mutex = "free"
    /\ animation_running' = TRUE
    /\ current_animation' = AnimationOf[request[c]]
    /\ animation_color' = ColorOf[request[c]]
    /\ animation_counter' = 0
    /\ Goto(c, "idle") /\ WaitEnds(c)
    /\ UNCHANGED <<led_mutex, current_system_state, pins, request, color, shown,
                   undisturbed>>

StartTimesOut(c) ==
    /\ pc[c] = "start" /\ TimeIsUp(c)
    /\ Goto(c, "idle") /\ WaitEnds(c)
    /\ undisturbed' = FALSE
    /\ UNCHANGED <<led_mutex, current_system_state, animVars, pins, request,
                   color, shown>>

\* Mutant of StopAnimation: only the pattern is reset.
MutKeepsRunning(c) ==
    /\ pc[c] = "stop" /\ led_mutex = "free"
    /\ current_animation' = "NONE"
    /\ color' = [color EXCEPT ![c] = ColorOf[request[c]]]
    /\ Goto(c, "take") /\ WaitEnds(c)
    /\ UNCHANGED <<led_mutex, current_system_state, animation_running,
                   animation_color, animation_counter, pins, request, shown,
                   undisturbed>>

\* led_stop_animation, then led_set_color.
StopAnimation(c) ==
    /\ pc[c] = "stop" /\ led_mutex = "free"
    /\ animation_running' = FALSE
    /\ current_animation' = "NONE"
    /\ color' = [color EXCEPT ![c] = ColorOf[request[c]]]
    /\ Goto(c, "take") /\ WaitEnds(c)
    /\ UNCHANGED <<led_mutex, current_system_state, animation_color,
                   animation_counter, pins, request, shown, undisturbed>>

StopTimesOut(c) ==
    /\ pc[c] = "stop" /\ TimeIsUp(c)
    /\ color' = [color EXCEPT ![c] = ColorOf[request[c]]]
    /\ Goto(c, "take") /\ WaitEnds(c)
    /\ undisturbed' = FALSE
    /\ UNCHANGED <<led_mutex, current_system_state, animVars, pins, request,
                   shown>>

-----------------------------------------------------------------------------
(* led_set_color, called by any task *)

\* Mutant of TakeMutex: the pins are written without the mutex.
MutNoMutex(p) ==
    /\ pc[p] = "take"
    /\ led_mutex' = p
    /\ Goto(p, "red") /\ WaitEnds(p)
    /\ UNCHANGED <<current_system_state, animVars, pins, request, color, shown,
                   undisturbed>>

TakeMutex(p) ==
    /\ pc[p] = "take" /\ led_mutex = "free"
    /\ led_mutex' = p
    /\ Goto(p, "red") /\ WaitEnds(p)
    /\ UNCHANGED <<current_system_state, animVars, pins, request, color, shown,
                   undisturbed>>

\* Mutant of AnimationTimesOut: the wait has no limit.
MutWaitsForever ==
    /\ pc[Animation] = "take"
    /\ UNCHANGED vars

\* The animation task waits for the mutex it holds, in vain; every task that
\* waited as long may give up as well.
AnimationTimesOut ==
    /\ pc[Animation] = "take"
    /\ Goto(Animation, "give")
    /\ overdue' = {c \in Callers : pc[c] \in Waiting}
    /\ UNCHANGED <<led_mutex, current_system_state, animVars, pins, request,
                   color, shown, undisturbed>>

TakeTimesOut(c) ==
    /\ pc[c] = "take" /\ TimeIsUp(c)
    /\ Goto(c, "idle") /\ WaitEnds(c)
    /\ undisturbed' = FALSE
    /\ UNCHANGED <<led_mutex, current_system_state, animVars, pins, request,
                   color, shown>>

WriteRed(p) ==
    /\ pc[p] = "red"
    /\ pins' = [pins EXCEPT !.r = RGB[color[p]].r]
    /\ Goto(p, "green")
    /\ UNCHANGED <<led_mutex, current_system_state, animVars, request, overdue,
                   color, shown, undisturbed>>

WriteGreen(p) ==
    /\ pc[p] = "green"
    /\ pins' = [pins EXCEPT !.g = RGB[color[p]].g]
    /\ Goto(p, "blue")
    /\ UNCHANGED <<led_mutex, current_system_state, animVars, request, overdue,
                   color, shown, undisturbed>>

\* The last pin, and the mutex given back.
WriteBlue(p) ==
    /\ pc[p] = "blue"
    /\ pins' = [pins EXCEPT !.b = RGB[color[p]].b]
    /\ shown' = color[p]
    /\ led_mutex' = "free"
    /\ Goto(p, IF p = Animation THEN "give" ELSE "idle")
    /\ UNCHANGED <<current_system_state, animVars, request, overdue, color,
                   undisturbed>>

SetColor(p) == TakeMutex(p) \/ WriteRed(p) \/ WriteGreen(p) \/ WriteBlue(p)

-----------------------------------------------------------------------------
(* led_animation_task *)

\* The colour of the animation's current step.
StepColor ==
    IF \/ current_animation = "BLINK" /\ animation_counter % 2 = 0
       \/ current_animation = "PULSE" /\ animation_counter < 2
    THEN animation_color
    ELSE "OFF"

\* The mutex is taken for the whole step. When no animation runs it is given
\* back at once, which changes nothing.
AnimationStep ==
    /\ pc[Animation] = "idle" /\ led_mutex = "free"
    /\ animation_running
    /\ led_mutex' = Animation
    /\ color' = [color EXCEPT ![Animation] = StepColor]
    /\ Goto(Animation, "take")
    /\ UNCHANGED <<current_system_state, animVars, pins, request, overdue,
                   shown, undisturbed>>

AnimationGives ==
    /\ pc[Animation] = "give"
    /\ animation_counter' = (animation_counter + 1) % 4
    /\ led_mutex' = "free"
    /\ Goto(Animation, "idle")
    /\ UNCHANGED <<current_system_state, animation_running, current_animation,
                   animation_color, pins, request, overdue, color, shown,
                   undisturbed>>

-----------------------------------------------------------------------------
Caller(c) ==
    \/ StartAnimation(c) \/ StartTimesOut(c)
    \/ StopAnimation(c) \/ StopTimesOut(c) \/ TakeTimesOut(c)

AnimationTask == AnimationStep \/ AnimationTimesOut \/ AnimationGives

Next ==
    \/ \E c \in Callers : SetSystemState(c) \/ Caller(c)
    \/ \E p \in Procs : SetColor(p)
    \/ AnimationTask

\* A call that has begun goes on: its waits end with the mutex or after 100 ms,
\* so it is not enough for others to keep passing the mutex on. The animation
\* task is scheduled. Nobody has to call.
Fairness ==
    /\ \A c \in Callers : SF_vars(Caller(c) \/ SetColor(c))
    /\ WF_vars(AnimationTask \/ SetColor(Animation))

Spec == Init /\ [][Next]_vars
FairSpec == Spec /\ Fairness

-----------------------------------------------------------------------------
(* Properties *)

Quiet == \A c \in Callers : pc[c] = "idle"

\* What the LED is set up to show is what state s asks for.
Displays(s) ==
    /\ animation_running = (AnimationOf[s] # "NONE")
    /\ current_animation = AnimationOf[s]
    /\ animation_running => animation_color = ColorOf[s]
    /\ ~animation_running => pins = RGB[ColorOf[s]]

\* led_set_color: the three writes of one call are never mixed with another's;
\* outside of a call the pins show the colour of the last complete one.
PinsWhole ==
    (\A p \in Procs : pc[p] \notin {"green", "blue"}) => pins = RGB[shown]

\* led_set_system_state, called by one task at a time and given the mutex when
\* it asks for it, leaves the LED set up for the state, however the animation
\* task is interleaved with it.
QuietDisplay == Quiet /\ undisturbed => Displays(current_system_state)

\* Every call of led_set_system_state returns.
CallsReturn == \A c \in Callers : pc[c] # "idle" ~> pc[c] = "idle"

\* README.md: "All LED operations are thread-safe using mutex protection":
\* when the calls have returned, the LED is set up for the state that
\* led_get_system_state reports.
DisplayMatchesState == Quiet => Displays(current_system_state)

\* README.md, LED Status System: an animated state lights its colour. Once set
\* up, an animation shows its colour or is replaced.
AnimationLights ==
    \A k \in Colors \ {"OFF"} :
        (animation_running /\ animation_color = k)
            ~> (pins = RGB[k] \/ ~animation_running \/ animation_color # k)
=============================================================================
