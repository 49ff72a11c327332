------------------------------- MODULE Calls -------------------------------
(***************************************************************************)
(* Calls, construction and unwinding in the interpreter: the frames over   *)
(* one value stack (call_setup.rs, call.rs, call_capability.rs, the call   *)
(* arms and the head of the dispatch loop of execute.rs).                  *)
(*                                                                         *)
(* A bytecode call pushes a frame and parks the caller on its call         *)
(* instruction.  A native called from bytecode runs on the Rust stack and  *)
(* may re-enter the interpreter through one of four seams: call_value,     *)
(* call_accessor_with, call_inline and construct_object.  Each seam saves  *)
(* stop_at_frames, sets a floor of its own and runs a nested dispatch      *)
(* loop; `natives` is that Rust stack.  A throw unwinds the frames above   *)
(* the innermost floor and then is the native's to pass on or to swallow.  *)
(*                                                                         *)
(* What a program computes is left out: which function a frame runs        *)
(* matters only as a kind, and at every instruction the frame on top may   *)
(* call, construct, return, throw or enter a try block.  Objects are the   *)
(* numbers of the allocation that made them.                               *)
(***************************************************************************)
EXTENDS Integers, SequencesExt

CONSTANTS
    MaxFrames,   \* MAX_CALL_DEPTH
    MaxSeams,    \* MAX_RESUME_DEPTH
    MaxCalls,    \* the bound on activations in a run
    Deadline     \* whether the run has a deadline that may pass

\* Of what kind the limits are.
ASSUME LimitsAssumption ==
    /\ MaxFrames \in Nat \ {0} /\ MaxSeams \in Nat
    /\ MaxCalls \in Nat \ {0} /\ Deadline \in BOOLEAN

VARIABLES
    frames,    \* the frames, each with its window
    top,       \* the length of the value stack
    natives,   \* the native calls on the Rust stack, innermost last
    this,      \* the `this` binding of every activation so far
    calls,     \* activations so far
    deadline,  \* "none", "passed", "hit" (an execute has returned for it), "caught"
    ended      \* the outermost execute has returned

callVars == <<frames, top, natives, this, calls, deadline, ended>>

Hole      == -2        \* a derived constructor's `this` before super()
Primitive == -1
undefined == 0
IsObject(v) == v > 0
NoValue   == -3

Constructors == {"base", "derived"}
Kinds        == {"function", "arrow"} \cup Constructors
Seams        == {"call_value", "call_accessor", "call_inline", "construct_object"}
Parking      == 2      \* what call_value and construct_object push: callee, this

\* The registers a function of each kind asks for.
max_regs(fn) == IF fn \in {"main", "derived"} THEN 3 ELSE 2

Frame == Last(frames)

\* The dispatch loop runs when no native has control.
Control == IF ended THEN "none" ELSE IF natives = <<>> THEN "loop"
           ELSE IF Last(natives).seam = "none" THEN "native" ELSE "loop"
InLoop   == Control = "loop"
InNative == Control = "native"

\* stop_at_frames: the frames the innermost loop may not touch.
Floor == IF natives = <<>> THEN 0 ELSE Last(natives).floor

-----------------------------------------------------------------------------
(* Frames and windows.                                                     *)

\* An activation's frame.  home is the activation whose `this` it uses: its
\* own, or for an arrow that of the constructor it was made in.
NewFrame(fn, base, target, home) ==
    [act |-> calls + 1, fn |-> fn, base |-> base, regs |-> max_regs(fn), home |-> home,
     newTarget |-> target, parked |-> "none", try |-> FALSE, got |-> NoValue, super |-> NoValue]

Main == [act |-> 1, fn |-> "main", base |-> 0, regs |-> max_regs("main"), home |-> 1,
         newTarget |-> FALSE, parked |-> "none", try |-> FALSE, got |-> NoValue, super |-> NoValue]

CallsInit == /\ frames = <<Main>> /\ top = max_regs("main") /\ natives = <<>>
        /\ this = <<undefined>> /\ calls = 1 /\ deadline = "none" /\ ended = FALSE

\* Where the window of a callee starts: behind all the registers of its caller.
window_end_called(f) == f.base + f.regs - 1     \* a mutant
window_end(f) == f.base + f.regs

Park(op) == Append(Front(frames), [Frame EXCEPT !.parked = op])

\* The values an activation's `this` starts with: an instance of its own for a
\* base constructor, the hole for a derived one.
instance_of(fn, how) ==
    IF how = "call" THEN undefined
    ELSE IF fn = "derived" THEN Hole ELSE calls + 1

\* The window of a frame is laid behind its caller's, over the stack `below`.
Push(parkedFrames, below, fn, how, home) ==
    /\ frames' = Append(parkedFrames,
                        NewFrame(fn, below, how = "construct", IF fn = "arrow" THEN home ELSE calls + 1))
    /\ top' = below + max_regs(fn)
    /\ this' = Append(this, instance_of(fn, how))
    /\ calls' = calls + 1

-----------------------------------------------------------------------------
(* unwind: the innermost frame above the floor whose pc is in a try block  *)
(* takes the exception, with a stack cut back to its window; with none the *)
(* frames above the floor go, and the error is the native's that runs the  *)
(* loop.                                                                   *)

\* A mutant: the callee and receiver a seam pushed stay on the stack.
seam_ends_littered(n, kept, length) == [frames |-> kept, top |-> length]

\* What a native finds when its nested loop is over: the frames and the stack.
seam_ends(n, kept, length) ==
    [frames |-> IF n.seam \in {"call_value", "construct_object"} /\ Len(kept) > n.floor
                THEN SubSeq(kept, 1, n.floor) ELSE kept,
     top    |-> IF n.seam \in {"call_value", "construct_object"} THEN n.base ELSE length]

CoveringFrames(fs, floor) == {i \in floor + 1 .. Len(fs) : fs[i].try}
Innermost(S) == CHOOSE i \in S : \A j \in S : j <= i

no_floor(n) == 0                                \* a mutant: unwind ignores stop_at_frames
floor_of(n) == n.floor

unwind_frames(fs) ==
    LET floor == IF natives = <<>> THEN 0 ELSE floor_of(Last(natives))
        taken == CoveringFrames(fs, floor)
    IN /\ UNCHANGED <<this, calls>>
       /\ IF taken # {}
          THEN LET i == Innermost(taken) IN
               /\ frames' = Append(SubSeq(fs, 1, i - 1),
                                   [fs[i] EXCEPT !.try = FALSE, !.parked = "none", !.super = NoValue])
               /\ top' = fs[i].base + fs[i].regs
               /\ deadline' = IF deadline = "hit" THEN "caught" ELSE deadline
               /\ UNCHANGED <<natives, ended>>
          ELSE IF natives = <<>>
          THEN /\ frames' = <<>> /\ top' = 0 /\ ended' = TRUE /\ UNCHANGED <<natives, deadline>>
          ELSE LET n   == Last(natives)
                   end == seam_ends(n, SubSeq(fs, 1, floor), fs[floor + 1].base) IN
               /\ frames' = end.frames /\ top' = end.top
               /\ natives' = Append(Front(natives), [n EXCEPT !.seam = "none"])
               /\ UNCHANGED <<deadline, ended>>

-----------------------------------------------------------------------------
(* Bytecode calls.                                                         *)

\* prepare_call and prepare_call_apply: the depth limit is a RangeError, a
\* class constructor may not be called, and either is thrown at the call.
prepare_call(fn, home) ==
    /\ InLoop /\ Frame.parked = "none" /\ Frame.super = NoValue /\ calls < MaxCalls
    /\ IF Len(frames) >= MaxFrames \/ fn \in Constructors
       THEN unwind_frames(frames)
       ELSE /\ Push(Park("call"), window_end(Frame), fn, "call", home)
            /\ UNCHANGED <<natives, deadline, ended>>

\* prepare_construct and prepare_construct_values, for `new`, and for super()
\* inside a derived constructor or an arrow of one.
prepare_construct(fn, op) ==
    /\ InLoop /\ Frame.parked = "none" /\ Frame.super = NoValue /\ calls < MaxCalls
    /\ op = "super" => frames[Len(frames)].fn \in {"derived", "arrow"} /\ this[Frame.home] \notin {undefined, Frame.home}
    /\ IF Len(frames) >= MaxFrames \/ fn \notin Constructors
       THEN unwind_frames(frames)
       ELSE /\ Push(Park(op), window_end(Frame), fn, "construct", 0)
            /\ UNCHANGED <<natives, deadline, ended>>

\* super() binds `this` once it has the instance (CheckThisUnbound, bind_this).
CheckThisUnbound_unchecked(home) == TRUE        \* a mutant: the check is not emitted
CheckThisUnbound(home) == this[home] = Hole

bind_this ==
    /\ InLoop /\ Frame.super # NoValue
    /\ IF CheckThisUnbound(Frame.home)
       THEN /\ this' = [this EXCEPT ![Frame.home] = Frame.super]
            /\ frames' = Append(Front(frames), [Frame EXCEPT !.super = NoValue])
            /\ UNCHANGED <<top, natives, calls, deadline, ended>>
       ELSE unwind_frames(frames)

\* A construct that got no object takes the callee's `this` (complete_frame).
construct_result_raw(v, act) == v               \* a mutant: what the callee returned
construct_result(v, act) == IF IsObject(v) THEN v ELSE IF IsObject(this[act]) THEN this[act] ELSE v

\* complete_frame: the result goes to the caller's register, or to the native
\* whose loop this frame was the last of.
complete_frame(v) ==
    /\ UNCHANGED <<this, calls, deadline>>
    /\ IF natives # <<>> /\ Len(frames) - 1 = Floor
       THEN LET n   == Last(natives)
                end == seam_ends(n, Front(frames), Frame.base) IN
            /\ frames' = end.frames /\ top' = end.top
            /\ natives' = Append(Front(natives),
                                 [n EXCEPT !.seam = "none",
                                           !.made = IF n.seam = "construct_object"
                                                    THEN construct_result(v, Frame.act) ELSE @])
            /\ UNCHANGED ended
       ELSE IF Len(frames) = 1
       THEN frames' = <<>> /\ top' = 0 /\ ended' = TRUE /\ UNCHANGED natives
       ELSE LET caller == frames[Len(frames) - 1]
                built  == caller.parked \in {"construct", "super"}
                result == IF built THEN construct_result(v, Frame.act) ELSE v IN
            /\ frames' = Append(SubSeq(frames, 1, Len(frames) - 2),
                  [caller EXCEPT !.parked = "none",
                                 !.got   = IF caller.parked = "construct" THEN result ELSE NoValue,
                                 !.super = IF caller.parked = "super" THEN result ELSE NoValue])
            /\ top' = Frame.base
            /\ UNCHANGED <<natives, ended>>

\* Return.  A derived constructor's result goes through DerivedResult: an
\* object as it is, undefined as the bound `this`, or a throw.
DerivedResult(v) ==
    CASE IsObject(v) -> v
      [] v = undefined /\ this[Frame.act] # Hole -> this[Frame.act]
      [] OTHER -> Hole

ReturnFrom(v) ==
    /\ InLoop /\ Frame.parked = "none" /\ Frame.super = NoValue
    /\ IF Frame.fn = "derived"
       THEN IF DerivedResult(v) = Hole THEN unwind_frames(frames) ELSE complete_frame(DerivedResult(v))
       ELSE complete_frame(v)

ThrowFrom == InLoop /\ Frame.parked = "none" /\ unwind_frames(frames)

EnterTry == /\ InLoop /\ Frame.parked = "none" /\ Frame.super = NoValue /\ ~Frame.try
            /\ frames' = Append(Front(frames), [Frame EXCEPT !.try = TRUE])
            /\ UNCHANGED <<top, natives, this, calls, deadline, ended>>

-----------------------------------------------------------------------------
(* Natives and the seams they re-enter through.                            *)

\* A native is called and has the Rust stack's top; MaxSeams bounds how many
\* of them a run nests.
CallNative ==
    /\ InLoop /\ Frame.parked = "none" /\ Frame.super = NoValue
    /\ Len(natives) <= MaxSeams
    /\ frames' = Park("call")
    /\ natives' = Append(natives, [floor |-> Len(frames), base |-> top, depth |-> Len(frames),
                                   seam |-> "none", made |-> NoValue])
    /\ UNCHANGED <<top, this, calls, deadline, ended>>

\* The nested loops construct_object did not open are counted.
resume_depth == Len(SelectSeq(natives, LAMBDA n : n.seam \notin {"none", "construct_object"}))

\* The four seams: what they push below the window, which checks they make
\* before the frame, and where the nested loop stops.
Refused(seam, fn) ==
    \/ resume_depth >= MaxSeams /\ seam # "construct_object"
    \/ Len(frames) >= MaxFrames /\ seam \in {"call_value", "construct_object"}
    \/ fn \in Constructors /\ seam \in {"call_value", "call_inline"}
    \/ fn \notin Constructors /\ seam = "construct_object"

Reenter(seam, fn) ==
    /\ InNative /\ calls < MaxCalls /\ ~Refused(seam, fn)
    /\ natives' = Append(Front(natives), [Last(natives) EXCEPT !.seam = seam, !.floor = Len(frames),
                                                               !.base = top])
    /\ Push(frames, top + (IF seam \in {"call_value", "construct_object"} THEN Parking ELSE 0), fn,
            IF seam = "construct_object" THEN "construct" ELSE "call", 1)
    /\ UNCHANGED <<deadline, ended>>

\* The native returns to the loop that called it: the call instruction of the
\* frame on top gets its value.
NativeReturns ==
    /\ InNative
    /\ natives' = Front(natives)
    /\ frames' = Append(Front(frames), [Frame EXCEPT !.parked = "none"])
    /\ UNCHANGED <<top, this, calls, deadline, ended>>

\* It throws, or passes on the error of a nested call.
NativeThrows ==
    /\ InNative
    /\ LET outer == Front(natives)
           floor == IF outer = <<>> THEN 0 ELSE Last(outer).floor
           taken == CoveringFrames(frames, floor)
       IN /\ UNCHANGED <<this, calls>>
          /\ IF taken # {}
             THEN LET i == Innermost(taken) IN
                  /\ frames' = Append(SubSeq(frames, 1, i - 1),
                                      [frames[i] EXCEPT !.try = FALSE, !.parked = "none"])
                  /\ top' = frames[i].base + frames[i].regs
                  /\ deadline' = IF deadline = "hit" THEN "caught" ELSE deadline
                  /\ natives' = outer /\ UNCHANGED ended
             ELSE IF outer = <<>>
             THEN frames' = <<>> /\ top' = 0 /\ natives' = outer /\ ended' = TRUE /\ UNCHANGED deadline
             ELSE LET n   == Last(outer)
                      end == seam_ends(n, SubSeq(frames, 1, floor), frames[floor + 1].base) IN
                  /\ frames' = end.frames /\ top' = end.top
                  /\ natives' = Append(Front(outer), [n EXCEPT !.seam = "none"])
                  /\ UNCHANGED <<deadline, ended>>

-----------------------------------------------------------------------------
(* The deadline is looked at between two instructions; execute returns the *)
(* error at once, without unwinding.                                       *)

DeadlinePasses == /\ Deadline /\ deadline = "none" /\ deadline' = "passed"
                  /\ UNCHANGED <<frames, top, natives, this, calls, ended>>

DeadlineHits ==
    /\ InLoop /\ deadline # "none"
    /\ deadline' = IF deadline = "passed" THEN "hit" ELSE deadline
    /\ UNCHANGED <<this, calls>>
    /\ IF natives = <<>>
       THEN ended' = TRUE /\ UNCHANGED <<frames, top, natives>>
       ELSE LET n   == Last(natives)
                end == seam_ends(n, frames, top) IN
            /\ frames' = end.frames /\ top' = end.top
            /\ natives' = Append(Front(natives), [n EXCEPT !.seam = "none"])
            /\ UNCHANGED ended

-----------------------------------------------------------------------------
\* An arrow is called by whoever holds it, and uses the `this` of the
\* activation it was made in.
Homes == {a \in 1 .. calls : a <= Len(this)}

CallsNext ==
    \/ \E fn \in Kinds \ {"arrow"} : prepare_call(fn, 0)
    \/ \E home \in Homes : prepare_call("arrow", home)
    \/ \E fn \in Kinds \ {"arrow"}, op \in {"construct", "super"} : prepare_construct(fn, op)
    \/ bind_this
    \/ \E v \in {undefined, Primitive, calls} : ReturnFrom(v)
    \/ ThrowFrom \/ EnterTry
    \/ CallNative \/ NativeReturns \/ NativeThrows
    \/ \E seam \in Seams, fn \in Kinds \ {"arrow"} : Reenter(seam, fn)
    \/ DeadlinePasses \/ DeadlineHits

CallsSpec == CallsInit /\ [][CallsNext]_callVars

-----------------------------------------------------------------------------
(* Properties.                                                             *)

Values == {NoValue, Hole, Primitive, undefined} \cup 1 .. MaxCalls

\* The frames are within the depth limit and their windows follow each other
\* without overlapping (prepare_call lays one behind its caller's).
WindowsNest ==
    /\ Len(frames) <= MaxFrames + Len(natives)
    /\ \A i \in 1 .. Len(frames) - 1 : frames[i].base + frames[i].regs <= frames[i + 1].base
    /\ \A i \in DOMAIN frames : frames[i].got \in Values /\ frames[i].super \in Values
    /\ \A a \in DOMAIN this : this[a] \in Values

\* Whenever an instruction is about to run, the value stack ends at the window
\* of the frame that runs it: whatever the calls in between pushed is gone,
\* whether they returned, threw or were caught (prepare_call lays the next
\* window at base + max_regs and trusts it).
StackEndsAtWindow == InLoop => frames # <<>> /\ top = Frame.base + Frame.regs

\* The frame that goes on after a native is the one that called it.
NativeReturnsToItsCaller == InNative => Len(frames) = Last(natives).depth /\ Frame.parked = "call"

\* While a native is on the Rust stack, the frames it was called over stay as
\* they are: neither a return nor a throw in its nested loop goes past its
\* floor.
FloorHoldsStep ==
    \A k \in 1 .. Len(natives') :
       k <= Len(natives) =>
          /\ Len(frames') >= natives[k].depth
          /\ \A i \in 1 .. natives[k].depth : frames'[i] = frames[i]
FloorHolds == [][FloorHoldsStep]_callVars

\* `new` answers an object, and what super() hands to the constructor is one,
\* whatever the constructors on the way returned.
ConstructGivesObject ==
    /\ \A i \in DOMAIN frames : /\ frames[i].got # NoValue => IsObject(frames[i].got)
                                /\ frames[i].super # NoValue => IsObject(frames[i].super)
    /\ \A k \in DOMAIN natives : natives[k].made # NoValue => IsObject(natives[k].made)

\* A `this` that is bound stays bound to the same object: super() called a
\* second time, by the constructor or by an arrow it made, throws.
ThisBoundOnceStep == \A a \in DOMAIN this : IsObject(this[a]) => this'[a] = this[a]
ThisBoundOnce == [][ThisBoundOnceStep]_callVars

\* No execute has returned for the deadline: from then on a native may find its
\* callees' frames above the one that called it.
InTime == deadline \in {"none", "passed"}

\* The frames and the value stack under calls, constructions, natives and nested
\* dispatch loops (call_setup.rs, execute.rs): windows do not overlap, every way
\* out leaves the stack at the window of the frame that goes on, and `new` answers
\* an object.
CallsUnwind ==
    InTime => WindowsNest /\ StackEndsAtWindow /\ NativeReturnsToItsCaller /\ ConstructGivesObject

\* Neither a return nor a throw of a nested dispatch loop, nor the deadline, goes
\* past the native it runs for, and `this` is bound once (execute.rs, lib.rs).
CallsKeepStep == InTime => FloorHoldsStep /\ ThisBoundOnceStep
CallsKeepToTheirFloor == [][CallsKeepStep]_callVars

\* The comment over the deadline check: the timeout "escapes every user
\* try/catch (they all live in this same loop)".
DeadlineEscapes == deadline # "caught"
=============================================================================
