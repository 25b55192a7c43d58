# Formal model of the Andino robot

Andino is a small differential-drive robot. An Arduino (an ATmega328) runs the
firmware in `src/andino_firmware`: it counts encoder edges in interrupts, closes
a speed loop with one PID controller per wheel, drives two motors and obeys
one-letter commands that arrive on a serial line. A Raspberry Pi runs ROS 2; the
package `src/andino_base` is the `ros2_control` hardware interface that talks to
the firmware. Above it runs `src/navigation2`, a vendored copy of the upstream
navigation stack. The other packages configure, describe or launch these.

This directory holds TLA+ modules that model the firmware, the host's side of
the serial link, and the control logic of the navigation stack: the action
server, the lifecycle manager, and the behavior tree with its action nodes. TLC
configurations check them on small instances, and TLAPS proves every safety
property of the passing runs, and the one refinement, for every value of the
constants. `PROJECT.json` lists the runs, what each definition models, the hazards
and the theorems.

## 1. Inventory

| Component | State | Operations | Interacts with |
|---|---|---|---|
| Main loop (`app.cpp`, `main.cpp`) | two time stamps, two PIDs, two motors | `setup`, `loop`, nine command callbacks, `adjust_motors_speed`, `stop_motors` | called forever by `main`; the shell calls the callbacks; reads the encoders, which interrupts change |
| PID (`pid.cpp`) | gains, setpoint, integral, last count, input and output, enabled flag | `reset`, `enable`, `disable`, `compute`, `set_setpoint`, `set_tunings` | owned by the main loop |
| Motor (`motor.cpp`) | duty cycle of two PWM outputs | `begin`, `enable`, `set_speed` | owned by the main loop |
| Encoder (`encoder.cpp`) | last two samples, 32-bit count, static registry of two instances | `begin`, `read`, `reset`, `callback` | `callback` runs in an interrupt, the rest in the main program |
| Pin change interrupts (`interrupt_in_arduino.cpp`) | mask registers, one callback per port | `attach`, three service routines | call the encoders' static wrappers |
| Shell (`shell.cpp`) | line buffer of 64 bytes, 16 command slots | `register_command`, `process_input`, `parse_message`, `execute_callback` | reads the serial stream, calls the command callbacks |
| Motor driver (`motor_driver.cpp`) | serial port, timeout | `Setup`, `SendMsg`, `ReadEncoderValues`, `SetMotorValues`, `SetPidValues` | writes a line to the firmware and waits for a line |
| Hardware interface (`diffdrive_andino.cpp`, `wheel.cpp`) | two wheels (count, position, velocity, command) | lifecycle callbacks, `read`, `write` | the controller manager calls `read` and `write` at 50 Hz |
| Action server (`nav2_util/simple_action_server.hpp`) | current and pending goal, three flags, the future of the worker thread | `handle_goal`, `handle_cancel`, `handle_accepted`, `work`, `activate`, `deactivate`, the calls of the execute callback | base of every nav2 task server; three threads meet on one mutex |
| Lifecycle manager (`lifecycle_manager.cpp`, `lifecycle_service_client.cpp`) | reported state, one bond per server, two timers, service clients | `startup`, `configure`, `cleanup`, `reset`, `shutdown`, `pause`, `resume`, `checkBondConnections`, `checkBondRespawnConnection` | change-state and get-state services of the servers, bonds |
| Action node (`bt_action_node.hpp`) | goal handle, future of the handle, result flag, update flag | `tick`, `halt`, `send_new_goal`, the callbacks of the client | an action server, through an executor that only runs inside `tick` and `halt` |
| Behavior tree (`behavior_tree_engine.cpp`, `bt_action_server_impl.hpp`, control nodes and `RateController`) | status of each node, child indices, retry and failure counts | `run`, `executeCallback`, `haltAllActions`, `tick` and `halt` of each kind of node | the navigator's action server runs it; its leaves are action nodes |

### What is hard in it, and what makes each part correct

* *Main loop.* `millis()` wraps every 49.7 days, the auto-stop and the PID share
  one loop with commands that may arrive in any order and number, and only one
  of the two motion commands restarts the auto-stop window. It is correct if
  the robot never moves on a stale order, a fresh speed order is not cut short,
  the PIDs keep their cadence, and the last order (rest, open loop or closed
  loop) stays in force on both wheels.
* *PID.* 16-bit arithmetic, state that outlives a stop, a divisor that a
  command may set to zero. It is correct if its output stays within the limits
  and it starts from a clean state.
* *Encoders.* The two channels are read one after the other while the wheel
  turns; the count is four bytes that an 8-bit processor reads and writes one
  at a time; `begin()` enables interrupts before the instance is registered. It
  is correct if no edge is forgotten and the count is the wheel's movement.
* *Shell.* A line longer than the buffer, empty lines, lost bytes.
* *Motor driver and hardware interface.* Replies that come after the timeout,
  partial replies, a firmware that restarts, a negative count kept in an
  unsigned field.
* *Action server.* A goal, a cancellation, the end of the callback and
  `deactivate()` come from three threads, in any order; a new goal preempts one
  that is not done. It is correct if no goal gets two results or is lost from the slots
  without one, goals are taken up in order, a waiting goal is announced to the callback,
  and nothing runs after `deactivate()`.
* *Lifecycle manager.* A server may refuse, throw, be slow, crash or come back
  between any two exchanges. It is correct if what it reports is true or about to
  be found false, servers go up in order and down in reverse, and no
  command hangs that a living system could end.
* *Action node.* Acknowledgements, statuses and results come late, in any order,
  also after a timeout or a halt, and only while the node spins. It is correct if it
  never uses a missing handle, never takes the result of one goal for that of another, and
  leaves no goal running that it could cancel.
* *Behavior tree.* Retry counters and child indices outlive a tick; halts,
  exceptions and skipped children cut a tick short. It is correct if no action runs
  whose ancestors do not, retries are counted exactly, and each activation starts fresh.

### Not modelled

Without state of their own: the serial and pin wrappers
(`serial_stream*`, `digital_out*`, `pwm_out*`), the IMU library (one flag, and a
slow `begin()` that the constant `SetupTimeMax` stands for), the command line
tool `motor_driver_demo`, and the packages `andino_bringup`, `andino_control`,
`andino_description`, `andino_hardware` and `andino_slam`, which are launch
files, parameters, robot descriptions and documents.

Of `src/navigation2`, most of the repository's 113,000 lines of implementation are
not modelled:

* *Task servers* (`nav2_controller`, `nav2_planner`, `nav2_behaviors`,
  `nav2_smoother`, `nav2_waypoint_follower`, `nav2_velocity_smoother`,
  `nav2_map_server`, ...). What they share, threads, preemption and cancellation, is
  `SimpleActionServer`, whose execute callback stands for any of them. The loops of
  their own compute on poses, paths and costmaps.
* *Planners, controllers, costmaps and localisation* (`nav2_smac_planner`,
  `nav2_navfn_planner`, `nav2_theta_star_planner`, `nav2_mppi_controller`, `dwb`,
  `nav2_regulated_pure_pursuit_controller`, `nav2_constrained_smoother`,
  `nav2_costmap_2d`, `nav2_amcl`, ...). Search, optimisation, ray tracing and particle filters over
  floating point grids and poses: what matters about their results is numerical, and an
  abstraction small enough for TLC says nothing about it. They are the bulk
  of the code, which is why the modules cover its control and not a large share of its lines.
* *User interface, launch files and system tests* (`nav2_rviz_plugins`,
  `nav2_bringup`, `nav2_system_tests`, `nav2_simple_commander`).
* *The other nodes of `nav2_behavior_tree`*: thin wrappers of the action node that copy
  ports into a goal, conditions on poses and paths, and decorators that the default tree
  does not use.

## 2. Modules

| Module | Models | How its state and actions correspond to the code |
|---|---|---|
| `AvrInt` | the target's 16-bit `int` | `ToInt` is a narrowing conversion, `TruncDiv` the division of C++ |
| `Motor` | `motor.cpp` | `SetSpeed` gives the duty cycles of the two outputs |
| `Pid` | `pid.cpp` | one operator per method, on a record of the private members; a division by a zero `ko_` takes any of the values the division routine leaves |
| `App` | `app.cpp` | `pc` is the place in `loop()`; every `millis()` and every callback is a step, so that ticks of the clock and of the wheels fall between them. `Init` is the end of `setup()`. The history variables `commandAge`, `pidAge`, `loopElapsed` and `order` exist for the properties |
| `Encoder` | `encoder.cpp`, `interrupt_in_arduino.cpp` | the wheels, the service routine (two channel reads, then the update) and the main program (`begin()` in three steps, `read()` and `reset()` byte by byte) interleave; a routine is never interrupted |
| `Shell` | `shell.cpp` | one step per byte; a carriage return terminates, splits and dispatches in one step. Words are found by what `strtok` does, and the NULs it leaves in the buffer are kept. The history `typed` is what was typed since the last carriage return, without the line feeds that `process_input` drops |
| `MotorDriver` | `motor_driver.cpp` and the callbacks that answer it | the two queues are the serial line; `SendMsg` is split at `ReadLine`, which finds a line or times out. The `e` callback reads the two counts in two steps. `Restart` loses commands, counts and possibly the tail of a reply; the host's call that was waiting reads the remains |
| `DiffDriveAndino` | `diffdrive_andino.cpp`, `wheel.cpp` | extends `MotorDriver` with the lifecycle and the alternation of `read()` and `write()` by the controller manager |
| `ActionGoals` | what a client may rely on of an action server | abstract, and safety only: a goal is rejected, or accepted and given at most one result; it succeeds only when no older goal is left without a result |
| `SimpleActionServer` | `simple_action_server.hpp` | a step is what one of the three threads does under `update_mutex_` or between two other accesses to what they share. The execute callback makes the public calls in any order, and returns or throws |
| `LifecycleManager` | `lifecycle_manager.cpp`, `lifecycle_service_client.cpp` | one job at a time (one callback group); an exchange with a server is a request, the answer, and the question for its state, with crashes and returns of servers in between. `phases` and `left` are the rest of the loops that the job is in. The respawn timer asks one server after the other (`Poll`), and any of them may die or return between two questions |
| `BtActionNode` | `bt_action_node.hpp` | `at` is the place in `tick()` or `halt()`; acknowledgements, statuses and results are delivered while the node spins. Its server is any that keeps the promise of `ActionGoals` |
| `BehaviorTree` | `behavior_tree_engine.cpp`, `bt_action_server_impl.hpp`, `recovery_node.cpp`, `pipeline_sequence.cpp`, `round_robin_node.cpp`, `rate_controller.cpp` | `at` is the node whose `tick()` runs, `ret` what its child has just returned; leaves return anything, throw, or are skipped. `Path` is a node with all nodes above it |
| `AppProofs`, `EncoderProofs`, `ShellProofs`, `SimpleActionServerProofs`, `LifecycleProofs`, `BtActionNodeProofs`, `BehaviorTreeProofs` | | the theorems about the module of that name |
| `LinkProofs` | | the theorems about `DiffDriveAndino` with `MotorDriver` |
| `MCApp`, `MCShell`, `MCDiffDriveAndino`, `MCBehaviorTree` | | constants of the runs |

`App` composes `Motor` and `Pid`; `DiffDriveAndino` composes the hardware
interface, the motor driver and the firmware's replies. The modules of the
navigation stack meet at two interfaces: `SimpleActionServer` implements
`ActionGoals`, and `BtActionNode` runs against `ActionGoals`, so what it shows
holds with any nav2 server behind it; `BehaviorTree` shows that a node is reset
before it is ticked again (`TickedFresh`), which `BtActionNode` takes for granted, and that
halts reach every running action (`NothingRunsAlone`), which `BtActionNode` turns into a cancellation
(`HaltCancels`). An operator whose comment
names no code and that stands just before a definition of nearly the same body
(`SignedElapsed` before `Elapsed`, `StoreLateWrap` before `Store`, ...) is a faulty
variant: each property is shown to fail when one of them takes the place of the
definition, so that no property holds by construction.

Abstractions. The argument strings of commands are the numbers they parse to; a
command with too few arguments changes nothing and is left out of `App`, and the argument of u
is taken to fit the 20 bytes into which `app.cpp:294-299` copies it without a check. Reply lines are the sequence
of the numbers in them; a number that a restart cut short is any count.
Positions are in ticks (`rads_per_tick_` is one), and `vel_`, the difference of
two positions over the period, is left out. In `App` both counts are read at one
moment of a PID run: each controller only sees its own count. An encoder count in
`App` is what `read()` ought to return; what it may return instead is a result of
`Encoder`.

In the navigation modules a goal is its number: contents, feedback and results are data
that no step depends on. `rclcpp::ok()` stays true: shutting the process down
is not modelled. `LifecycleManager` has bonds (`bond_timeout_` is
positive, 4 s by default) and leaves out the preshutdown callback, which ends
the process. The library below `BehaviorTree` is BehaviorTree.CPP 4, which is not part of
the repository: `executeTick` keeps a node's status when the tick was
skipped, `haltChild` halts a running child and resets it, a decorator
resets its finished child, and `haltTree` halts every node from the root. `rclcpp_action`
is modelled from its use: a goal handle's transitions, a client whose callbacks run in
the executor that is spun.

## 3. Runs

Passing runs:

* `app_timing` - one wheel, a clock of 16 values that wraps any number of times, a
  window of 5 and a PID period of 2 with iterations of up to 2 ms. The auto-stop is neither late
  (`AutoStopBound`) nor early for an m command (`AutoStopNotEarly`), the PIDs keep
  their cadence (`PidCadence`), and a robot without orders comes to rest
  (`EventuallyStops`). The
  modulus exceeds every interval the timers measure, as 2^32 does, so each interval
  meets the wrap at every offset. One wheel is enough: the timers do not depend on it.
* `app_wheels` - two interchangeable wheels with different orders, PID runs with
  changing counts and a u command that leaves `ko_` at zero: `OrderHeld`.
* `enc_exact` - two encoders from power-up, both wheels turning either way, with up to
  two edges waiting for one sample: `NoLostEdge`, and `CountExact` as long as each edge was sampled before
  the next. Positions range over
  a full period, so every entry of the table that one or two edges can reach occurs.
* `enc_bytes` - a count of two small bytes, read and reset byte by byte with
  interrupts in between, and one slot for two encoders: the low byte stays exact (`LowByteExact`),
  `read()` returns a count that the encoder had during the call unless an interrupt carried or
  borrowed out of the lowest byte meanwhile (`ReadWithoutCarry`; with a carry the value may be
  torn, see Observations), and an encoder without a slot leaves the other's registration alone (`Routing`).
* `shell_lines` - a buffer of 6, argv of 3 and a registry of 2 with three names;
  lines of up to 8 bytes, so that lines fit, fill the buffer exactly and wrap, and
  any number of lines one after another: `ExecutesTypedLine`.
* `link_control` - answers come before the timeout, but the firmware restarts at
  will: `InStep`, `PositionFresh`, `CallReturns`. Counts from -1 to 1 suffice: the
  properties compare counts for equality and the host only stores them. `PositionFresh` speaks of
  reads that got a line and during which the wheel's count was never negative; what becomes of a
  negative one is under Observations.
* `action_server` - four goals and three activations: a current, a pending and an
  incoming goal with one more to displace them, and a goal that is left from an earlier
  activation. An active goal is one the server holds or is handing over
  (`ActiveIsHeld`), goals are served in order (`OldestFirst`), a waiting goal is announced
  (`PreemptAnnounced`), nothing happens while inactive (`QuietWhenInactive`), feedback has a
  goal (`FeedbackHasGoal`), the callback serves what arrives (`CallbackServes`),
  `deactivate()` returns (`DeactivateReturns`), and the server implements
  `ActionGoals` (`GoalsSpec`): at most one result for a goal, successes in order of arrival. No
  property says that each accepted goal gets a result, because one may not (Observations).
* `lifecycle` - two servers, every command in every order, refusals, exceptions, slow
  answers, crashes and returns: two servers make a first, which is left behind when the second fails, and a
  last; three gave nothing new. The report INACTIVE is true and the report ACTIVE is true or about to be found
  out (`ReportHolds`), order is kept on the way up and down
  (`OrderKept`), the manager ends only after a shutdown (`DiesOnlyAfterShutdown`), a lost server is
  noticed (`LossIsNoticed`), and commands end (`CommandEnds`).
* `bt_action` - three goals: one that is running or late, one that replaces it, one of a later run. A
  missing handle is never used (`HandleNeverNull`), a result is that of the last goal
  (`ResultIsOfLastGoal`), a halt cancels (`HaltCancels`), and a result that is there ends
  the action (`ResultReachesNode`).
* `bt_tree` - the default tree `navigate_to_pose_w_replanning_and_recovery.xml` with its three
  recovery nodes, pipeline, rate controller and round robin of four, and 2, 1 and 1 retries (the file
  has 6, 1 and 1; two are the least for which a counter is compared more than once), goal after
  goal. What the file has besides is left out: the two selectors at the head of the
  pipeline (12-13); the `Sequence` with a `Fallback` of conditions and the
  `ReactiveFallback` with `GoalUpdated` around the round robin (30-36), so that the round robin is
  itself the recovery child; and each `Sequence` of a condition and a clearing, or of two clearings,
  is one leaf. `TickedFresh` would fail for the selectors: a pipeline ticks the children before
  the present one again with the status they had. They are leaves that only write to the
  blackboard. No node runs whose parent does not
  (`NothingRunsAlone`), a pipeline's later children run after its earlier ones
  (`PipelineInOrder`), retries are neither exceeded nor given away (`RetriesExact`), a node that is ticked has been reset (`TickedFresh`), a round robin fails only when
  it has tried all (`RobinTriesAll`), and every tick ends (`TickReturns`).

Runs that show a disagreement between the code and what it says of itself:

* `link_late` - `motor_driver.h:84`, "Send a message to the motor driver and read the
  response": after one timeout every call returns the answer to an earlier one. The
  first calls after the port is opened, which restarts the board, are a likely place.
* `lifecycle_hard_reset` - `lifecycle_manager.cpp:267`, "Hard change will continue even if
  a node fails": a crashed server makes the service client throw, the
  exception leaves the loop, and `reset()` reports UNCONFIGURED with the servers before it active.

### Observations

Seen in the models or while reading, without a run of their own.

Firmware and link:

* `constants.h:39` ties the auto-stop to "no command", but an o command does not restart the
  window (`app.cpp:268-284` does not stamp the timer).
* `pid.cpp:95` resets a disabled PID "to prevent startup spikes", but only if its last
  input was not zero; a stalled wheel's controller keeps its old output and integral.
* `encoder.h:89`, "Gets the ticks count value": an interrupt between two bytes of `read()`
  (`encoder.cpp:108`) that carries gives a value the count never had: going from 255 to 256 it
  may return 511, and on the way back 0 (the model, with smaller bytes, has both). The PIDs and
  the `e` reply take that value for the count.
* `encoder.h:94`: a `reset()` (`encoder.cpp:110`) that an interrupt splits leaves a count far from zero. After
  the low byte is cleared, one step backwards borrows from the upper bytes, which are then cleared: the
  count is 255 and not -1.
* `wheel.h:51-52` promises the angle of the wheel. A count below zero passes through an
  unsigned field (`wheel.h:56`) first, so -1 tick becomes 2^32 - 1 ticks: a wheel that rolls backwards through
  zero jumps by a whole range of `unsigned int`. `PositionFresh` leaves these reads out.
* `shell.h:79` allows 16 arguments and `parse_message()` passes at most 15 words.
* `pid.cpp:75` assumes that a PID is only turned on from rest; m after o turns it on in motion.
* o with -32768 gives `PwmOut::write` a value outside "0 to 255" (`pwm_out.h:48`).
* u answers with two lines and i with an unterminated one, which shifts the answers
  that `SendMsg` reads.
* A read that times out reports the positions of an empty reply, zero, and returns OK; the
  two counts of one e reply need not have existed at the same time.

Navigation:

* `simple_action_server.hpp:218` says "Shouldn't reach a state with a pending goal but no
  current one": a goal that arrives when the worker has left its loop but is not yet
  done reaches it. No thread takes that goal up; the next one to arrive ends it with an error.
* A goal that is accepted before `deactivate()` and handed to `handle_accepted` after it becomes the current
  goal; its worker meets `stop_execution_` (`simple_action_server.hpp:241`, set at 300-301) and leaves at once. The goal
  stays active without a result. `activate()` starts no worker, so from then on every
  goal is put in the pending slot behind it and replaced there by the next.
* `publish_feedback` (`simple_action_server.hpp:517-525`) may find its goal gone between check and use when
  `deactivate()` has missed its deadline and calls `terminate_all` (319).
* After a reset of which one step failed, bonds of servers that were already down stay in
  `bond_map_` and cause a hard reset later. A failed command sets UNKNOWN, and with it
  the bond checks stop, while servers stay active.
* The respawn timer is not cancelled by a shutdown, whose `node_map_` is empty
  (`lifecycle_manager.cpp:541`); a command after a shutdown meets the same null clients.
* A server that crashes between the request and its answer to `change_state` leaves the manager waiting
  for ever; shutdown reports success also when a server refused to go down.
* After a hard reset that an exception cut short, the startup on respawn fails: the first
  server is still active and cannot be configured.
* `bt_action_node.hpp:306-309` says that `halt()` cancels the action "if it is still
  running"; a halt before the acknowledgement, or a failure on its
  timeout, leaves a goal running uncancelled when it is accepted late. `goal_updated_` survives
  from one run of the node to the next.
* `recovery_node.cpp:83-92`: a skipped recovery keeps `retry_count_`, so the next
  activation has fewer retries.
* A round robin that comes round to a failed child, because another was skipped, ticks
  it with status FAILURE; `BtActionNode` then sends no goal (`bt_action_node.hpp:193`) and may use a
  handle it has not got (line 242).

### Fairness

`App!Fairness` is weak fairness of the steps of `loop()` and of the clock: `main()` calls
`loop()` forever, `process_input()` ends when the serial buffer is empty, which the baud
rate allows, and `millis()` advances by a timer interrupt. Nothing is assumed of
commands or wheels. `Tick` is held back while an iteration has lasted `MaxLoopTime`:
this is the assumption that an iteration is bounded. `DiffDriveAndino!FairSpec` says
that `ReadLine` returns or throws (its timeout), and that the firmware serves its
input; restarts may happen for ever. `Encoder` and `Shell` have only safety properties.

`SimpleActionServer!FairSpec`: a thread that can go on does (weak fairness of the worker's steps, of the
hand-over of an accepted goal and of the return of `deactivate()`), and an execute callback
eventually returns or throws, however often it is preempted (strong fairness, since its other calls
disable the return for a moment); every server's loop tests `is_cancel_requested()`
and has an end. Nothing is assumed of clients. `LifecycleManager!FairSpec`: the manager's job goes
on, a living server answers, a bond to a dead peer breaks (its heartbeat timeout),
and the bond timer, which other callbacks may delay, is eventually served (strong: the executor takes
timers before services), and the poll for servers that came back goes on. Nothing is assumed of servers that crash, and none has to
come back. `BtActionNode!FairSpec`: the tree ticks a running node again
and a tick or halt goes on, the clock reaches `server_timeout_`, and a result that is
there is eventually delivered to a node that keeps spinning (strong: it is only delivered inside
ticks). `BehaviorTree!FairSpec`: the tree's thread runs and each leaf's tick returns.

## 4. Proofs

Every safety property that a passing run checks is also a theorem, for every value of
the constants that the module's assumptions admit.

| Module | Theorem | States | For every |
|---|---|---|---|
| `AppProofs` | `TypeCorrect` | `TypeOK`: in particular a controller's output stays within its limits although every term of it may wrap | set of wheels, gains, speeds, duty cycles |
| | `OrdersHeld` | `OrderHeld` | the same |
| | `AutoStopBounded`, `AutoStopPatient`, `PidCadenceKept` | `AutoStopBound`, `AutoStopNotEarly`, `PidCadence` | clock width, window, period, iteration time |
| `EncoderProofs` | `CallbacksRouted` | `Routing` | number of encoders and of slots |
| | `EdgesKept` | `NoLostEdge` | interleaving of edges, reads and interrupts |
| | `CountsExactly` | `CountExact`, where the main program calls no `reset()` | width of the count |
| | `LowByteCounts`, `ReadsWithoutCarry` | `LowByteExact`, `ReadWithoutCarry` | byte base and number of bytes |
| `ShellProofs` | `StaysInside` | `TypeOK`: no byte outside the buffer, no command outside the registry | length of the buffer, of argv and of the registry |
| | `RunsWhatWasTyped` | `ExecutesTypedLine` | the same, and every series of names |
| `LinkProofs` | `LinkInStep`, `PositionsFresh` | `InStep`, `PositionFresh`, where no answer comes after its timeout (`PositionFresh`: for reads that got a line and counts that are not negative) | set of counts, width of unsigned |
| `SimpleActionServerProofs` | `TypeCorrect`, `GoalsHeld`, `OrderOfArrival`, `PreemptionAnnounced`, `QuietAfterDeactivate`, `FeedbackGoalStays` | `TypeOK`, `ActiveIsHeld`, `OldestFirst`, `PreemptAnnounced`, `QuietWhenInactive`, `FeedbackHasGoal` | number of goals and activations |
| | `ServerRefinesGoals` | `GoalsSpec`: each step is a step of `ActionGoals` or a stutter (safety: at most one result for a goal) | the same |
| `LifecycleProofs` | `ReportsHold`, `OrderHolds`, `DeathOnlyAfterShutdown` | `ReportHolds`, `OrderKept`, `DiesOnlyAfterShutdown` | number of servers |
| `BtActionNodeProofs` | `HandleThere`, `ResultOfLastGoal`, `HaltLeavesNothing` | `HandleNeverNull`, `ResultIsOfLastGoal`, `HaltCancels` | number of goals |
| `BehaviorTreeProofs` | `PipelineOrdered`, `HaltReachesAll`, `RetriesCounted`, `RobinFailsLast` | `PipelineInOrder`, `NothingRunsAlone`, `RetriesExact`, `RobinTriesAll` | tree of these nodes, number of retries |
| | `ActionsTickedFresh` | `TickedFresh` | tree whose pipelines have leaves in their last place only |

### Assumptions

Those of the modules, which TLC evaluates on the runs' constants:

* `TimingAssumption`: the window plus an iteration, and `setup()` plus a PID period plus
  two iterations, are shorter than the clock's range, and `setup()` is shorter
  than the window (a robot that needs longer to start only stops once more).
  `InputAssumption`: arguments and gains are 16-bit ints, `kPidRate` is positive.
  `MaxSpeedAssumption`, `PwmMaxAssumption`: the limits are positive ints.
* `EncoderAssumption`: there is an encoder, a byte has two values at least.
  `PowerAssumption` is arithmetic, not a restriction: the provers know nothing of `^`, and what
  they lack (`b^0 = 1`, `b^1 = b`, `b^i = b^j b^(i-j)`) would take an induction.
* `TreeAssumption`: the nodes form a tree with `Root` at its top. Each child has one
  place, the way up from every node leads to the root, a recovery node has two children
  (as `recovery_node.cpp:36` demands), a decorator one, a leaf none.
* `UnsignedAssumption`: the counts lie below the range of `unsigned int`, as an `int` does.
* the others say that a bound is a natural number.

Those of single theorems:

* `~LateReplies` in `LinkProofs`: the run `link_late` shows that `PositionFresh` fails without it.
* `"reset" \notin MainOps` in `CountsExactly`: an interrupt between two bytes of `reset()`
  breaks the count; `LowByteCounts` says what is left of it, without this assumption.
* `LeavesLast` in `ActionsTickedFresh`. A pipeline ticks its earlier children again in each tick,
  with the status SUCCESS that they had returned, so the property fails for a leaf there. In
  the default tree the earlier child is the `RateController`, which resets its child itself.

### Arguments

*Main loop.* None of the timing properties is inductive: they speak of ages, the code
compares stamps. `TimingInv` ties the two together: the unsigned difference of clock
and stamp equals, or bounds, the age, according to where `loop()` is, and
stays below the modulus, so a wrap of the clock never makes a timer look young
(`TickElapsed`). `NextStopTimer` and `NextPidTimer` prove it inductive relative to `TypeOK`,
action by action. `OrderHeld` is inductive together with `TypeOK` once it is stated
wheel by wheel (`HeldAt`); the step that matters is `AdjustMotorsSpeed`, which must
leave a motor alone whose PID is off. `ComputeType` follows the 16-bit
arithmetic of `Pid::compute` term by term.

*Encoders.* `RegistryInv`: encoders are registered in the order of their `begin()`, and only
registered ones are sampled. `SampleInv`: without a pending flag, a routine between its two
reads has seen where the wheel is, and outside a routine the sample is the wheel's place; an
edge in between raises the flag. `CountInv` and `LowByteInv` state the counts for the place sampled
instead of the wheel's. `ReadInv` follows `read()`: as long as all counts of the call have the same upper
bytes, what it has put together is the lower part of one of them.

*Shell.* `StoredInv`: the index is the number of bytes typed modulo the length of the buffer, and what
is below it is the end of what was typed. So the terminator is written at the
end of the typed line, and what longer lines left behind it is not read.

*Link.* `CallInv` follows one call through the link: the command is on its way, or its one answer is, or
a restart has swallowed both; between two calls both queues are empty. With `SeenInv`, an
answer holds counts from the time of the call, which the unsigned field keeps if they are not negative.

*Action server.* `SlotInv` is the conjunction of the properties about goals and `Numbered`: the goal on its way to
`handle_accepted` is newer than both slots. `ThreadInv` adds that a server which is not active has been told
to stop. The refinement maps the status of each goal to itself; a success maps to a success
of `ActionGoals` because of `ActiveIsHeld` and `OldestFirst`: whatever has no result yet is held, and is newer.

*Lifecycle manager.* `WorkInv` says which transitions and nodes a job has ahead, `DoneInv` what it has
achieved for the nodes that it is through with: that is what makes the report true when the job ends,
and what `OrderKept` says of the nodes before the present one. `ClientsInv` is about the shutdown. The poll
of the respawn timer changes none of these (`PollKeeps`).

*Action node.* `LastGoalInv`: a running node waits for the acknowledgement of its last goal or has its
handle, and a result that it holds is that goal's. `HandleInv` and `RestInv` say what is
known of acknowledged goals and of the last goal of a node at rest.

*Behavior tree.* `TreeInv` has a part for each kind of node (`PipelineInv`, `RecoveryInv`, `RobinInv`,
`RateInv`) and three about the tree: the tick is at the child that each node above it counts as its
present one (`CallInv`), what runs is below what runs or works (`RunInv`), and a finished child is only
found where its parent passes it, ticks it again, or is about to see it (`FreshInv`). The lemmas about
`Path` make a halt local: it reaches only nodes below the one that halts, all running ones
there, and none above (`HaltingBelow`, `ResetsApart`). `MovesKeep` then reduces a step at a node to the node
itself and its children. For `RobinTriesAll` the invariant says that the children counted are the last ones before the
present one, round the end (`Back`, `RoundBack`).

### Only model-checked

Liveness, which is out of the prover's reach (`EventuallyStops`, `CallReturns`, `CallbackServes`, `DeactivateReturns`,
`LossIsNoticed`, `CommandEnds`, `ResultReachesNode`, `TickReturns`), and the two runs that show a
disagreement.

## 5. Plan

Done, in this order: `App` with `Motor` and `Pid`; the proofs about it; `Encoder`;
`MotorDriver` and `DiffDriveAndino`; `Shell`; `ActionGoals` and `SimpleActionServer`;
`LifecycleManager`; `BtActionNode`; `BehaviorTree`; the proofs about all of these. To come:

1. An abstract specification of the robot as the host sees it (an order, in force
   until the next one or the window), with the proof that `App` implements it.
2. Weaker assumptions: `CountExact` after a `reset()` that no interrupt splits, and
   `PositionFresh` with late replies until the first timeout.
3. Facts that liveness rests on and that are safety: a bound on the recoveries of one tick
   of the tree, and that each loop of the action server has a step to take.
