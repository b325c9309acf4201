# A TLA+ model of cppfmu

cppfmu is a C++ library for writing FMUs (the simulation components of the FMI
standard). A model author derives a *slave* class; cppfmu supplies the C
interface that an *importer* (the simulation environment) loads and calls. There
are three such interfaces, for FMI 1.0, 2.0 and 3.0, chosen at compile time.

The hard part of the library is not computation. It is a protocol layer between
two parties that it does not control: it must decide which of the importer's
calls may reach the slave, keep a record of the mode the slave is in through
every way a call can end, hand out and take back memory across a C boundary, and
give the importer control *inside* a running step. This project models that
layer.

## Inventory

| Component | State it keeps | Operations | Interacts with |
|---|---|---|---|
| `Lifecycle` (`cppfmu_lifecycle_fmi3.*`) | mode, `eventModeUsed`, three flags of the open intermediate update | `Allows`, `OnSuccess`, `Fail`, `RestoreFromSnapshot`, `Enter-`/`LeaveIntermediateUpdate` | asked and told by the FMI 3.0 interface |
| FMI 3.0 C interface (`fmi3_functions.cpp`) | `Component`: slave, lifecycle, callback, `inDoStep`, bounds of the step, log settings | about 90 entry points, most of them through `RunLegalCall`; `fmi3DoStep` by itself | importer, `Lifecycle`, slave |
| Intermediate updates (`Component::IntermediateUpdate`, `DoStepScope`) | the `Component` members above | opened by the slave inside its `DoStep`; calls the importer's callback, which calls the C interface again | slave → wrapper → importer → wrapper → slave |
| FMI 3.0 FMU states (`FmuState`) | heap objects of mode and slave state; bytes with a header | get, overwrite, set, free, size, serialize, deserialize | importer owns the handles, slave owns its part |
| FMI 3.0 logging (`Component::Log`) | logging on, chosen categories | `fmi3SetDebugLogging`, reports of failures | importer's log callback |
| `SlaveInstance3` (`cppfmu_cs_fmi3.*`) | the intermediate-update function | virtual methods, most throw `std::logic_error` by default | model code |
| FMI 2.0 C interface (`fmi_functions.cpp`) | mode (with `Restored`), `lastSuccessfulTime` | entry points through `RunCall`, `fmi2DoStep`, status queries | importer, slave |
| FMI 1.0 C interface (`fmi_functions.cpp`) | `lastSuccessfulTime` | entry points through `RunCall`; no mode | importer, slave |
| `SlaveInstance` (`cppfmu_cs.*`) | none | virtual methods | model code |
| Memory (`cppfmu_common.hpp`) and the construction of instances | importer's allocation callbacks; the parts of a `Component` | `New`, `Delete`, `AllocateUnique`; the instantiating and freeing functions | importer, model code |
| `Logger` of FMI 1.0 and 2.0 (`cppfmu_common.hpp`) | log settings, shared with `Component` | `Log`, `DebugLog`; `fmiSetDebugLogging`, `fmi2SetDebugLogging` | importer's log callback |
| Examples, tests, build | – | – | – |

What is hard, and what makes each component correct:

* *Re-entrancy.* During `fmi3DoStep` the slave may call
  `IntermediateUpdate`; the importer's callback then calls the same instance.
  Correct: no slave gets a call that its mode, or the open update, does not
  allow; steps never nest; updates lie in their step.
* *Failure of any call, in four ways* (a refusal, a discard, an error, a fatal
  error), also inside an update. Correct: the recorded mode and the slave agree
  afterwards, and the status tells the importer the truth.
* *Restoring a mode from elsewhere* (another time, another instance, bytes).
  Correct: both sides end in the mode the state was taken in.
* *Ownership across the C boundary.* Correct: every FMU state is held by one
  handle, none leaks or dangles, whichever call fails half way.
* *Times as doubles.* NaN and rounding must not open an update outside a step.
* FMI 2.0: a restore leaves the mode unknown to the wrapper. Correct: it never
  refuses a legal call, and lets an illegal one through only then.
* FMI 1.0: a call that makes three calls on the slave may fail between them.
  Correct: the status tells the importer enough to go on properly.
* *Time after a step* that was completed, stopped, discarded or failed. Correct:
  the status query answers where the last step left the slave.
* *Half-done requests.* Setting categories, and building an instance, allocate
  step by step and may fail at each. Correct: what was granted before still
  holds (it does not quite in FMI 3.0, see below); nothing leaks; what exists
  finds what it uses.

There are no threads, timers, persistent files or messages in the library: what
interleaves is the importer and the slave, through callbacks. `PROJECT.json`
lists the hazards one by one, each at its line.

## Modules

| Module | What it is |
|---|---|
| `Lifecycle` | class `Lifecycle` as operators from a record to a record |
| `SlaveInstance3` | how a call on an FMI 3.0 slave may end, overridden method or default |
| `Fmi3Wrapper` | the FMI 3.0 interface, with importer and slaves as the environment |
| `CoSimModes` | abstract: the FMI 3.0 state graph, and restores to recorded modes only |
| `NestedUpdates` | FMI 3.0 updates opened inside any call, every call a frame of the stack |
| `SlaveInstance` | how a call on an FMI 1.0 or 2.0 slave may end, and the status made of it |
| `Fmi2Wrapper` | the FMI 2.0 interface |
| `Fmi1Wrapper` | the FMI 1.0 interface, with an importer that goes by the statuses |
| `Logging` | which messages reach the importer, in all three versions |
| `Construction` | how instances are put together and taken apart |
| `MCStepping`, `MCSnapshots`, `MCStateGraph` | instances of `Fmi3Wrapper` for TLC |
| `MCNested`, `MCFmi2`, `MCFmi1`, `MCLogging`, `MCConstruction` | instances of the others |
| `Fmi3Wrapper_proofs` | proofs: types, ownership of FMU states |
| `Fmi3Modes_proofs` | proofs: modes, calls, updates, coherence of FMU states |
| `Fmi3Steps_proofs` | proofs: updates lie in their step, statuses and failures are reported truly, the state graph is followed |
| `Fmi2Wrapper_proofs` | proofs: everything checked of `Fmi2Wrapper` by its main run, and ownership |
| `NestedUpdates_proofs`, `Fmi1Wrapper_proofs`, `Logging_proofs`, `Construction_proofs` | proofs: everything checked of these modules by their passing runs |

`Fmi3Wrapper` EXTENDS `SlaveInstance3`, which EXTENDS `Lifecycle`;
`NestedUpdates` EXTENDS `SlaveInstance3`; `Fmi2Wrapper` and `Fmi1Wrapper` EXTEND
`SlaveInstance`. `Logging` and `Construction` stand by themselves: no call
decides anything by a log setting, and an instance that exists is complete.

### Lifecycle

`LegalStates` and `Transition` are the two columns of `kRules`. Each method is an
operator of the same name with the lifecycle as its first argument. `Completed`
is the tail of `RunLegalCall`: it says what each outcome does to the lifecycle.
`ok`, `discard`, `logic`, `error` and `fatal` are a return, a
`cppfmu::DiscardError`, a `std::logic_error`, any other exception, and a
`cppfmu::FatalError`.

### Fmi3Wrapper

| Variable | Code |
|---|---|
| `alive` | instances between `fmi3InstantiateCoSimulation` and `fmi3FreeInstance` |
| `lc` | `Component::lifecycle` |
| `hasCallback` | `Component::intermediateUpdate` is not null |
| `scope` | `Component::inDoStep`, `stepStart`, `stepEnd`, `lastFinishedUpdate` |
| `stack` | the C++ call stack: running `DoStep` calls with their locals, and the arguments of the open update |
| `slave` | not in the code: the mode the slave is in by the calls it received; `Broken` once it threw |
| `stepStatus` | what `fmi3DoStep` returned last, until the next call |
| `heap`, `handle` | `FmuState` objects; the importer's `fmi3FMUState` variables |
| `buffer` | the bytes of one serialized FMU state |

A call that runs no callback is one step, because the wrapper is sequential:
nothing can come between its guard and its effect. `fmi3DoStep` is several:
`BeginDoStep`, any number of updates (`OpenUpdate`, calls, `CallbackReturns`),
`RejectUpdate` and `CatchException`, and `EndDoStep`. An exception that
`IntermediateUpdate` throws is left `pending` in the frame of the step: the
slave either catches it or its `DoStep` ends with it.

The entry points of one `LifecycleCall` that only pass values (the fourteen
`fmi3Get*`, the fourteen `fmi3Set*`, the dependency queries) are one action.

`slave` is what makes the properties say something: it is the slave's own view,
moved only by calls that really reach it, and never consulted by the wrapper.
`SlaveNeverMisused` compares the calls it gets with what FMI 3.0 allows in that
view, not with the table.

What is left out, and why it makes no difference:

* values of variables, messages, and output arguments of `fmi3DoStep` other than
  its status: no decision of the wrapper depends on them;
* `Component::lastSuccessfulTime`: written, never read, in the FMI 3.0 code;
* null instances and null argument pointers: these return at once and change
  nothing, as does freeing a null state;
* a failing instantiation: it leaves nothing behind (`Construction` shows it);
* the times, also of an update, are `0..MaxTime` and `NaN`: the wrapper only compares
  times. `StepEnds` lets a positive step end where it starts, as rounding can.

The importer is modelled to keep to what FMI asks of it where the wrapper has no
way to check: it does not free an instance from its own callback, frees an
instance's FMU states before the instance, passes a state only to the instance
it came from, hands a null handle to `fmi3DeserializeFMUState`, and does not use
a buffer whose serialization failed. Everything else it may do in any order, and
every call may be made in every mode. The slave opens updates only from the code
of its `DoStep` (`NestedUpdates` lifts this). Its `DoStep`, and the methods that
`Overrides` says it overrides, throw anything at any time; the others do what the
base class does (`SlaveInstance3`). A slave that throws from one of
its FMU state methods has left that state as it was. `new FmuState` may run out of
memory in `fmi3GetFMUState` and `fmi3DeserializeFMUState`: that fails the instance
like an exception of the slave and is counted as one, so that `Broken` may stand for
a slave that is whole. That is on the safe side: `SlaveExpects` lets a broken slave
get fewer calls than one in any mode.

`ImporterCallsOn` tells two importers apart. With `FALSE`, a callback that saw a
call fail the instance makes no further call on it before it returns. With
`TRUE` it may, and that makes a difference (see `reentry` below).

### NestedUpdates

The same wrapper, for one instance and without times and FMU state data, but with
every call as two steps, `BeginCall` and `EndCall` or `EndDoStep`, so that updates
can be opened in between from any call. `frames` is the call stack: the calls
that the slave serves and the callbacks that the importer runs. `reentered`
remembers that the slave has opened an update outside the body of its `DoStep`. A
restore may lead to any mode that an FMU state can have been taken in.

### Fmi2Wrapper

| Variable | Code |
|---|---|
| `alive` | between `fmi2Instantiate` and `fmi2FreeInstance` |
| `mode` | `Component::mode` |
| `lastTime` | `Component::lastSuccessfulTime` |
| `status` | what the last call returned, `Exception` if it threw |
| `slave` | not in the code: where the slave is by the calls it got, the time it has reached, whether that comes from a step, and where its last step left it |
| `heap`, `handle` | the FMU states the slave has handed out; the importer's `fmi2FMUstate` variables |
| `buffer` | the bytes of one serialized FMU state |

No importer code runs inside a call of FMI 2.0, so every call is one step. The
importer calls anything in any order. It frees its FMU states before the
instance, hands a null handle to `fmi2DeSerializeFMUstate`, and steps from the
time the slave has reached. `DoStep` does not go through the FMI 2.0 `RunCall`
and moves the mode by its own rule; `GetBooleanStatus` is the one action whose
slave call nothing catches.

`lastSuccessfulTime` is set by `fmi2DoStep` only. After a reset, a new start time or
a restore, `fmi2GetRealStatus` therefore answers with a time of the run before,
although the slave is elsewhere: in `Restored`, and again as soon as an instance that
was reset has been initialised anew. `slave.reached` remembers where the last
`DoStep` left the slave, through all of these, and `LastTimeIsTheLastSteps` says that
this is the answer, always, and that it is the slave's own time as long as none of
them has come in between. Nothing in the library's documentation says what the
answer should be before the next step.

`slave.phase` plays the part that `slave` plays in `Fmi3Wrapper`: FMI 2.0's own
table of allowed calls (4.2.4) is applied to it (`SlaveExpects`), and `mode` is
compared with it.

### Fmi1Wrapper

The interface has no mode, so all that can be correct is what an importer that
listens to it gets. `known` and `at` are that importer's record: the FMI 1.0
state that its calls have led to, and the time it steps from. After an error it
resets or frees, after a fatal error it frees, after a discard it asks
`fmiGetRealStatus`. `slave` and `time` are the slave's own record.
`InitializeSlave` stops after any number of its three calls.

### Logging

`settings` is what the code keeps; `request` is what the importer was last
granted, `attempt` what it last asked for; a `message` is delivered by the first,
and `MessagesFollowRequest` judges it by the other two. `ThrowInSetDebugLogging` is a request that runs out of memory
when some categories have been copied. The importer is taken to catch that
exception, as a C++ importer in the same process can.

### Construction

`parts` are the parts of a `Component` that exist, in the order in which they are
made; `blocks` says, for a part that is allocated memory, whose functions it came
from; `allocator` is the copy that `Delete` makes. FMI 1.0 and 2.0 have the same
parts; the FMI 3.0 `Component` comes from `new`. A part is destroyed at a time,
so that each stage of a destructor or an unwinding is a state. The catch clause of
`New`, the deleter of a `unique_ptr` and `Delete` all take parts away from the end
of that one order; the model does not tell which of the three destroys a part.

## Runs

| Run | Instance | Shows |
|---|---|---|
| `stepping` | one instance, times 0..2 and NaN, with and without Event Mode and callback, `DoStep` nested at most twice; 9,117 states | `SlaveNeverMisused`, `ModeAgreesWithSlave`, `OneStepAtATime`, `UpdatesStayInTheirStep`, `FailureReachesSlave`, `StatusMatchesMode`, `UpdateEnds` |
| `snapshots` | two instances, two handles, two cells, one buffer, no updates; symmetric; 117,510 states | `TypeOK`, `SnapshotsCoherent`, `HandlesOwnStates`, `ModeAgreesWithSlave`, `SlaveNeverMisused`; `Fmi3Wrapper` implements `CoSimModes` |
| `stategraph` | one instance, times 0..1, updates, one FMU state that is never freed or serialized, `ImporterCallsOn`; 167,693 states | `Fmi3Wrapper` implements `CoSimModes`, also with restores within an update |
| `nested` | stacks of up to 5 frames, no overridden derivatives; 1,031,640 states | `UpdatesFollowTheStack`, `CallbackStaysRestricted`, `FailsOnlyByOwnMethods` |
| `fmi2_modes` | two handles, one cell, times 0..1, no overridden derivatives; 103,110 states | `TypeOK`, `NoLegalCallRefused`, `ModeTracksSlave`, `LastTimeIsTheLastSteps`, `HandlesOwnStates`, `MisusedOnlyAfterRestore` |
| `fmi1` | times 0..2; 308 states | `TypeOK`, `ImporterKnowsTheSlave`, `StepsAreContiguous` |
| `logging` | two categories, one of them the library's own; 1,204 states | `TypeOK`, `MessagesFollowRequest` |
| `construction` | two instances; 1,210 states | `TypeOK`, `NothingLeaks`, `PartsFindWhatTheyNeed` |
| `reentry` | as `stepping`, times 0..1, `ImporterCallsOn` | violates `FailureReachesSlave` |
| `after_exception` | as `stepping`, times 0..1 | violates `NothingAfterException` |
| `nested_reentry` | as `nested` | violates `OthersRefusedMeanwhile` |
| `fmi2_terminate` | FMI 2.0, `TerminateRequested` overridden | violates `NoExceptionEscapes` |

Bounds. Three times are enough for an update strictly inside a step, before an
update already finished, and at both ends; only the order of times counts. Two
nested `DoStep` calls are one more than is allowed, so a nesting would show. An
FMU state is shared by at most two instances, and the operations on one do not
touch another, so two of each give every case: one's own and a foreign state,
one held and one freed. Five frames hold a `DoStep`, its callback, a call from it
that re-enters, the second callback and a call from that; or, once the inner
callback is back, a `DoStep` nested in the outer one with a callback of its own.
Two instances show that memory functions of one are never used for the other. The
proofs do not depend on any of these bounds.

Symmetry is used in `snapshots` and `fmi2_modes`, where every property is an
invariant or an action property and no constant of the permuted sets is named.
`fmi2_modes` has a single cell, so that the two handles compete for it.

Fairness. The only assumption is that the importer's callback returns
(`Fairness`), as any callback that the wrapper calls synchronously must if its
caller is to go on. Nothing is assumed of the slave: it may stay in `DoStep` for
ever. `UpdateEnds` follows from that alone.

Each property has a mutant of the code that violates it (`PROJECT.json`,
"mutants"); the mutants stand in the modules next to the definition they change.

### Disagreements between documentation and code

* `reentry`. README.md:52-53 of the library says that a call that failed the
  instance during an update makes `IntermediateUpdate` throw.
  The code looks at the state when the callback is back. `fmi3Reset` is legal in
  `Failed`, so a callback that resets the failed instance makes
  `IntermediateUpdate` return normally, and the slave goes on in a step of an
  instance that is `Instantiated`.
* `after_exception`. README.md:359-361 says that after an exception
  no member function of the slave but the destructor is called. In FMI 3.0
  `fmi3Reset`, `fmi3SetFMUState` and the functions on FMU state memory do reach
  it, by design of the lifecycle table; in FMI 2.0 every call does that the mode
  allows.
* `nested_reentry`. cppfmu_cs_fmi3.hpp:498 says that every call but gets and sets
  is refused while the callback runs, and :508 that `IntermediateUpdate` throws
  when called outside `DoStep()`. The code asks whether a step is running, which
  is so in the callback too. A slave that opens an update from a Set or Get method
  gets a second callback, and on its return the instance is in Step Mode while the
  first callback still runs.
* `fmi2_terminate`. README.md:363-366 says that an exception becomes an error
  status. `fmi2GetBooleanStatus` calls `TerminateRequested` unguarded.

Two weaknesses of the code are part of what properties state, since no
documentation contradicts them. `fmi3SetDebugLogging` sets the flag and clears the
categories before it fills them, so that running out of memory in between leaves a
part of them, or none, which lets everything through; `fmi2SetDebugLogging` copies
first and swaps. `MessagesFollowRequest` says of FMI 3.0 after such a request that
nothing gets through but what it asked for, or everything if it had stored no
category. And `fmi3DoStep` returns `fmi3OK` for a Failed instance when the slave
swallowed the exception of an update; `StatusMatchesMode` allows that in this case
and no other.

## Proofs

`tlapm` checks, for every value of the constants that satisfies the assumptions
of the modules (`ConstantsAssumption`, `OverridesAssumption`,
`CategoriesAssumption`), so for any number of instances, handles and cells, any
bounds on times and depth, and a model that overrides any methods:

| Theorem | Statement |
|---|---|
| `TypeCorrect` | `Spec => []TypeOK` |
| `StatesOwned` | `Spec => []HandlesOwnStates` |
| `ModeInvariant` | `Polite` implies `Spec => []FullInv` |
| `CallsAreLegal` | `Polite` implies `Spec => []SlaveNeverMisused` |
| `ModesAgree` | `Polite` implies `Spec => []ModeAgreesWithSlave` |
| `StepsDoNotNest` | `Polite` implies `Spec => []OneStepAtATime` |
| `StatesAreCoherent` | `Polite` implies `Spec => []SnapshotsCoherent` |
| `UpdatesInTime` | `Polite` implies `Spec => []UpdatesStayInTheirStep` |
| `StatusIsTrue` | `Polite` implies `Spec => StatusMatchesMode` |
| `FailuresReachSlave` | `Polite` implies `Spec => FailureReachesSlave` |
| `GraphInvariant` | `Spec => []GraphInv` |
| `GraphIsFollowed` | `Spec => FollowsStateGraph`, that is, `Fmi3Wrapper` implements `CoSimModes` |
| `FlagsFollowTheStack`, `CallbacksAreRestricted`, `FailuresAreTheModels` | `NestedUpdates`: `UpdatesFollowTheStack` and `CallbackStaysRestricted` always hold, `Spec => FailsOnlyByOwnMethods` |
| `TypesHold`, `ModeIsTheSlaves`, `LegalCallsPass`, `StatusTimeIsTheLastSteps`, `StatesAreOwned` | `Fmi2Wrapper`: `TypeOK`, `ModeTracksSlave`, `NoLegalCallRefused`, `LastTimeIsTheLastSteps`, `HandlesOwnStates` always hold |
| `MisuseNeedsRestore` | `Fmi2Wrapper`: `Spec => MisusedOnlyAfterRestore` |
| `TypesHold`, `SlaveIsKnown`, `StepsFollow` | `Fmi1Wrapper`: `TypeOK`, `ImporterKnowsTheSlave`, `StepsAreContiguous` always hold |
| `TypesHold`, `RequestsAreFollowed` | `Logging`: `TypeOK`, `MessagesFollowRequest` always hold |
| `TypesHold`, `MemoryIsFreed`, `NeedsAreMet` | `Construction`: `TypeOK`, `NothingLeaks`, `PartsFindWhatTheyNeed` always hold |
| `InvHolds` | `Spec => []Inv` in `Fmi2Wrapper`, `NestedUpdates`, `Fmi1Wrapper`, `Logging` and `Construction`, each with its own inductive invariant `Inv` |

`Polite` is `ImporterCallsOn = FALSE`; the theorems that assume it are false
without.

*Types and ownership.* `TypeOK` alone is not inductive: `Marked` updates the
frame of the caller's `DoStep`, which has a type only if an update is open in it.
`NestedInCallback` (every frame but the innermost waits in its callback) closes
that gap. `HandlesOwnStates` is inductive together with the types: a handle that is
not null holds a state of the right type, so every operation finds one.

*Modes.* The properties about the slave are not inductive: they say nothing of
the flags on which the next step is decided. `InstanceInv` divides the life of an
instance in three. It is `Absent`; or `AtRest`, where the recorded mode is the
slave's and a failure is recorded on both sides; or `InStep`, where exactly one
frame is on the stack and it mirrors all of `Component`'s and `Lifecycle`'s flags:
what the update allows, whether a write was made, whether a call failed, which
step it is. With it, the table lets a call through at rest only if the slave
expects it (`TableServesSlave`), and in a callback only if the update was opened
for it (`DispatchInStep`); a `DoStep` begins only at rest (`BeginDoStepInstance`)
and its end leads back there. `SnapshotsCoherent` is part of the invariant
because a restore needs it, and it needs that a state is taken only at rest.

*Times.* `UpdateRejected` compares with the bounds in `Component`; `FullInv` says
that they are those of the running frame. "Not before the last finished update"
is written so that NaN passes; that it still means "at or after" needs one fact
more (`InTime`): the last finished update is a number unless the step starts at a
NaN, and then the first two comparisons have failed.

*What a step may not do.* Only `EndDoStep` shortens a stack
(`OnlyEndDoStepShortens`), and `FullInv` says in which mode it finds the instance:
`Failed` if a call in one of its updates failed, `Step` otherwise. That is what
`StatusIsTrue` compares with the status. While an instance that failed is still in
its update, a polite importer makes no call on it and its slave does not run, so
only `CallbackReturns` can close the update, and it sees `Failed`
(`FailuresReachSlave`).

*State graph.* `GraphIsFollowed` needs neither `Polite` nor anything about the
slave. The one thing that must be known of the state is that an instance is in
Intermediate Update Mode only while its innermost `DoStep` is in a callback
(`UpdateInv`): nothing that slave code does in between, not even the end of
`DoStep`, then leads out of the mode by a way that the graph does not have. The
lemmas `...Follows` map each action to its move or a stutter; `CompletedModes`
compares `kRules` with the graph, and `SavedWithin` bounds the modes that an action
leaves in FMU states. A restore finds its mode among them through
`HandlesOwnStates`, and a serialized one because the codes are inverse
(`CodesAreInverse`).

*Nested updates.* `UpdatesFollowTheStack` is inductive with the types, at any depth:
a callback's return leaves the mode whatever is below it. `CallbackStaysRestricted`
is not, since it says nothing of the frames below the innermost. `ShapeInv` lists
the five shapes a stack can have until the slave re-enters (idle, in a call that is
no step, in the body of a `DoStep`, in its callback, in a call from that) and what
`Lifecycle` knows in each; in the last two it mirrors the callback's frame.
`FailsOnlyByOwnMethods` rests on `DefaultsNeverFail`: nothing in the base class
throws anything but `std::logic_error`.

*FMI 1.0.* `ImporterKnowsTheSlave` is nearly inductive; it lacks the time the next
step starts from. That is `at`, or what `fmiGetRealStatus` will answer when the
importer still has to ask (`KnownTime`). The three calls of `fmiInitializeSlave`
are a recursive function, unrolled in `CallsInOrder`.

*Logging.* The settings are those last granted or, in FMI 3.0 after a request that
threw, a part of that request (`SettingsInv`), and FMI 1.0 has no categories; with
that a message is forwarded exactly if the granted request covers it
(`ForwardsWhatIsCovered`), or only if the other does (`ForwardsNoMore`).

*Construction.* The parts of an instance are always the first ones of `Order`
(`PartsInOrder`), while it is built, unwound and freed, and each needs only earlier
ones (`NeedsAreEarlier`). A block comes from the functions that `Delete` will use on
it (`BlocksFromMemory`).

*FMI 2.0.* `NoLegalCallRefused` is a statement about all calls in a state and
follows from `ModeTracksSlave`: outside `Restored` the mode is the slave's phase,
and in each phase the guard lets through what FMI 2.0's table does. The invariant
`Inv` adds the types and the ownership of the FMU states, which a restore needs to
find a state of the right type, and `LastTimeIsTheLastSteps`. One lemma treats the
calls that leave FMU states alone, one those that go through `RunCall`; each
action then has a step of its own.

Only model-checked: liveness (`UpdateEnds`), which is out of the prover's reach.
The properties of the runs that expect a violation are false. Every other property
of a run is stated by one of the theorems.

## Plan

1. Done: `Lifecycle`, `SlaveInstance3`, `Fmi3Wrapper`, `CoSimModes`,
   `NestedUpdates`, `SlaveInstance`, `Fmi2Wrapper`, `Fmi1Wrapper`, `Logging`,
   `Construction`, with the runs above.
2. Done: the proofs above, one for every safety and action property that a run
   checks and for the refinement of `CoSimModes`.
3. Left: that the shapes of `NestedUpdates` without re-entry are the steps of
   `Fmi3Wrapper` (a refinement between the two), and properties for the hazards
   that `PROJECT.json` lists without one.

Not modelled: the examples (numerical code without a protocol of its own), the
tests, the build files. Of the modelled components: null instances and null
argument pointers, which are answered at once; the text of messages and the
escaping of `%` in formats; the versions and platform strings; the entry points of
Model Exchange and Scheduled Execution, which only refuse.
