------------------------------- MODULE Servod -------------------------------
(* ServoBlaster/servod.c for one servo: the program writes the masks that the  *)
(* DMA controller reads, sample after sample, at the same time.  A step of the *)
(* program is one store; a step of the DMA controller is one control block.    *)
(* SIGTERM may come at any store and does not return.                          *)
EXTENDS Integers

CONSTANTS num_samples,       \* samples of a cycle
          servo_min_ticks, servo_max_ticks, step_time_us,
          Start,             \* where in the cycle the pulse of the servo may begin
          Commands,          \* the widths that are written to /dev/servoblaster
          idle_timeout       \* whether --idle-timeout is given

\* What main accepts: a cycle has samples and holds the widest pulse.
ASSUME ServodAssumption ==
    /\ num_samples \in Nat \ {0} /\ Start \subseteq 0 .. num_samples - 1
    /\ servo_min_ticks \in Nat /\ servo_max_ticks \in servo_min_ticks .. num_samples
    /\ idle_timeout \in BOOLEAN

VARIABLES turnoff_mask, turnon_mask, \* the bits of this servo
          servostart, servowidth,
          kill_time,         \* whether servo_kill_time is set
          job,               \* what the program is about to store
          killed,            \* terminate is running
          pos, block,        \* the sample and the control block the DMA is at
          level, high,       \* the output, and for how many samples it has been on
          since, shrunk      \* history: widths asked for since the pulse began, and
                             \* whether one was less than the one before

progVars == <<turnoff_mask, turnon_mask, servostart, servowidth, kill_time, job, killed>>
dmaVars == <<pos, block, high>>
servodVars == <<progVars, dmaVars, level, since, shrunk>>

Sample == 0 .. num_samples - 1
At(what) == [at |-> what, old |-> 0, width |-> 0, i |-> 0, dp |-> 0]

init_ctrl_data ==
    /\ turnoff_mask = [s \in Sample |-> TRUE] /\ turnon_mask = FALSE
    /\ servostart \in Start /\ servowidth = 0 /\ kill_time = FALSE
    /\ job = At("select") /\ killed = FALSE
    /\ pos = 0 /\ block = "off" /\ level = FALSE /\ high = 0
    /\ since = {} /\ shrunk = FALSE

-----------------------------------------------------------------------------
\* A width in steps, microseconds or percent of the range; with a sign it is added
\* to the current one and stops at the end of the range.  -1 when it is refused.
parse_width(arg) ==
    LET n == CASE arg.unit = "steps" -> arg.n
               [] arg.unit = "us" -> arg.n \div step_time_us
               [] arg.unit = "%" -> (arg.n * (servo_max_ticks - servo_min_ticks)) \div 100 + servo_min_ticks
        up == servowidth + n
        down == servowidth - n
        width == CASE arg.sign = "+" -> IF up > servo_max_ticks THEN servo_max_ticks ELSE up
                   [] arg.sign = "-" -> IF down < servo_min_ticks THEN servo_min_ticks ELSE down
                   [] OTHER -> n
    IN IF width = 0 \/ width \in servo_min_ticks .. servo_max_ticks THEN width ELSE -1

\* set_servo up to its first store.  dp is just past the pulse of the new width.
set_servo(width) ==
    /\ job' = [at |-> IF width > servowidth THEN "clear" ELSE IF width < servowidth THEN "set" ELSE "commit",
               old |-> servowidth, width |-> width, i |-> width, dp |-> (servostart + width) % num_samples]
    /\ since' = since \cup {width} /\ shrunk' = (shrunk \/ width < servowidth)

Program(from) == job.at = from /\ UNCHANGED <<dmaVars, servostart>>

ReadCommand(arg) == /\ Program("select") /\ parse_width(arg) # -1
                    /\ set_servo(parse_width(arg))
                    /\ UNCHANGED <<turnoff_mask, turnon_mask, servowidth, kill_time, killed, level>>

Next1(i) == [job EXCEPT !.i = i, !.at = IF i = servowidth THEN "commit" ELSE @]

\* Mutant: the bits are cleared from the old width on.
ClearsUpwards ==
    /\ Program("clear")
    /\ LET dp == (servostart + servowidth + job.width - job.i) % num_samples
       IN /\ turnoff_mask' = [turnoff_mask EXCEPT ![dp] = FALSE]
          /\ job' = Next1(job.i - 1)
    /\ UNCHANGED <<turnon_mask, servowidth, kill_time, killed, level, since, shrunk>>

\* A wider pulse: the bits are cleared from the new width down to the old one.
Clear == /\ Program("clear")
         /\ LET dp == (job.dp + num_samples - 1) % num_samples
            IN /\ turnoff_mask' = [turnoff_mask EXCEPT ![dp] = FALSE]
               /\ job' = [Next1(job.i - 1) EXCEPT !.dp = dp]
         /\ UNCHANGED <<turnon_mask, servowidth, kill_time, killed, level, since, shrunk>>

\* A narrower pulse: the bits are set from the new width up to the old one.
Set == /\ Program("set")
       /\ turnoff_mask' = [turnoff_mask EXCEPT ![job.dp] = TRUE]
       /\ job' = [Next1(job.i + 1) EXCEPT !.dp = (job.dp + 1) % num_samples]
       /\ UNCHANGED <<turnon_mask, servowidth, kill_time, killed, level, since, shrunk>>

Commit == /\ Program("commit")
          /\ servowidth' = job.width /\ job' = [job EXCEPT !.at = "turnon"]
          /\ UNCHANGED <<turnoff_mask, turnon_mask, kill_time, killed, level, since, shrunk>>
update_idle_time == kill_time' = (kill_time \/ idle_timeout)
TurnOn == /\ Program("turnon")
          /\ turnon_mask' = (job.width # 0) /\ update_idle_time
          /\ job' = IF killed THEN [At("udelay") EXCEPT !.i = 2 * num_samples + 1] ELSE At("select")
          /\ UNCHANGED <<turnoff_mask, servowidth, killed, level, since, shrunk>>

\* Mutant: the output is forced off whatever the width.
IdleForcesOff == turnon_mask' = FALSE /\ job' = At("gpio_set")

\* Removes the turn-on; the output is forced only where no turn-off will come.
set_servo_idle == /\ turnon_mask' = FALSE
                  /\ job' = At(IF servowidth = num_samples THEN "gpio_set" ELSE "select")

\* The kill time of the servo has passed.
get_next_idle_timeout == /\ Program("select") /\ kill_time
                         /\ kill_time' = FALSE /\ set_servo_idle
                         /\ UNCHANGED <<turnoff_mask, servowidth, killed, level, since, shrunk>>
gpio_set == /\ Program("gpio_set")
            /\ level' = FALSE /\ job' = At("select")
            /\ UNCHANGED <<turnoff_mask, turnon_mask, servowidth, kill_time, killed, since, shrunk>>

\* Mutant: the DMA controller is reset at once.
ResetAtOnce == /\ ~killed /\ killed' = TRUE /\ job' = At("reset")
               /\ UNCHANGED <<turnoff_mask, turnon_mask, servostart, servowidth, kill_time, level,
                              dmaVars, since, shrunk>>

\* The handler of every signal: the servo is set to 0, and after the time of a
\* cycle the DMA controller is reset and the program ends.
terminate == /\ ~killed /\ killed' = TRUE
             /\ set_servo(0)
             /\ UNCHANGED <<turnoff_mask, turnon_mask, servostart, servowidth, kill_time, level, dmaVars>>
Reset == /\ job.at = "udelay" /\ job.i = 0 /\ job' = At("reset")
         /\ UNCHANGED <<turnoff_mask, turnon_mask, servostart, servowidth, kill_time, killed, level,
                        dmaVars, since, shrunk>>

-----------------------------------------------------------------------------
\* The control blocks of a sample: turn off, at the start of the servo turn on, delay.
\* The program that sleeps for the time of a cycle sees all its blocks.
slept == IF job.at = "udelay" /\ job.i > 0 THEN [job EXCEPT !.i = @ - 1] ELSE job
Dma(from) == /\ job.at # "reset" /\ block = from
             /\ UNCHANGED <<turnoff_mask, turnon_mask, servostart, servowidth, kill_time, killed>>
DmaOff == /\ Dma("off")
          /\ block' = IF pos = servostart THEN "on" ELSE "delay"
          /\ level' = (level /\ ~turnoff_mask[pos])
          /\ IF level' THEN UNCHANGED <<high, since, shrunk>> ELSE high' = 0 /\ since' = {} /\ shrunk' = FALSE
          /\ UNCHANGED pos /\ job' = slept
DmaOn == /\ Dma("on") /\ block' = "delay"
         /\ level' = (level \/ turnon_mask)
         /\ IF turnon_mask
            THEN /\ high' = 0
                 /\ LET under_way == job.at \in {"clear", "set", "commit", "turnon"}
                    IN /\ since' = IF under_way THEN {job.old, job.width} ELSE {servowidth}
                       /\ shrunk' = (under_way /\ job.width < job.old)
            ELSE UNCHANGED <<high, since, shrunk>>
         /\ UNCHANGED pos /\ job' = slept
DmaDelay == /\ Dma("delay") /\ block' = "off" /\ pos' = (pos + 1) % num_samples
            /\ high' = IF level /\ high < num_samples THEN high + 1 ELSE high
            /\ UNCHANGED <<level, since, shrunk>> /\ job' = slept

ServodNext == \/ \E arg \in Commands : ReadCommand(arg)
              \/ Clear \/ Set \/ Commit \/ TurnOn \/ get_next_idle_timeout \/ gpio_set \/ terminate \/ Reset
              \/ DmaOff \/ DmaOn \/ DmaDelay
ServodSpec == init_ctrl_data /\ [][ServodNext]_servodVars

\* A pulse ends when the output goes off, by a control block or by gpio_set, which does
\* not wait for one; or when the next pulse begins with the output still on.
PulseEnds == (level /\ ~level') \/ (block = "on" /\ block' # "on" /\ level /\ turnon_mask)
Forced == level /\ ~level' /\ block' = block

\* Wherever in its cycle the DMA controller is while widths are asked for and the
\* idle timer expires, a pulse that is only ever widened has one of the widths asked
\* for and none between, and one that is narrowed lies between the least and the
\* greatest (the source promises more: PulsesAreOldOrNew); the idle timer cuts no pulse
\* that a turn-off would have ended.  (The last pulses, of terminate, are below.)
PulsesAreWhole ==
    [][PulseEnds /\ ~killed =>
          IF Forced THEN \A s \in Sample : ~turnoff_mask[s]
          ELSE IF shrunk THEN \E a, b \in since : a <= high /\ high <= b
          ELSE high \in since]_servodVars

\* At whatever store the signal comes, the output is off when the DMA controller is
\* reset, unless the signal interrupts set_servo when it has cleared the turn-off bits
\* of the whole cycle and not yet stored the width (terminate then sets none of them).
OffWhenReset == job.at = "reset" /\ (\E s \in Sample : turnoff_mask[s]) => ~level

\* What the comment on set_servo says: whether the width is increased or decreased,
\* each pulse has the old or the new width.
PulsesAreOldOrNew == [][PulseEnds /\ ~Forced /\ ~killed => high \in since]_servodVars
=============================================================================
