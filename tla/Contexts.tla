------------------------------ MODULE Contexts ------------------------------
(***************************************************************************)
(* The context layers of core/context: contexts are values, each derived   *)
(* from an earlier one by a With function of context.go, by Merge, or sent *)
(* to another process and read back there (serialization.go).  Only the    *)
(* budget's sum of costs is shared and changes.                            *)
(*                                                                         *)
(* An ID is the number of the context that introduced it, 0 the empty      *)
(* string; the trace ID WithExecution makes up is its execution's number.  *)
(* Sessions are in module Sessions.                                        *)
(***************************************************************************)
EXTENDS Integers, Sequences, FiniteSets, Functions

CONSTANTS
  MaxContexts,  \* bound: contexts made
  MaxTime,      \* bound: the clock
  MaxSpent,     \* bound: what a budget's sum can reach
  Timeouts,     \* the timeouts asked for, in ticks
  Priorities,   \* beside "", which a layer without one has
  MetaKeys,
  SizeOf,       \* the bytes of a key with its value
  MetaLimit,    \* 4096 in the code
  Never         \* the time of a deadline there is not

ASSUME ContextAssumption ==
  /\ MaxContexts \in Nat \ {0} /\ MaxTime \in Nat /\ MaxSpent \in Nat
  /\ Timeouts \subseteq Nat \ {0}
  /\ Never \in Nat /\ Never > 2 * MaxTime /\ \A t \in Timeouts : Never > 2 * MaxTime + t
  /\ "NORMAL" \in Priorities /\ "" \notin Priorities
  /\ IsFiniteSet(MetaKeys) /\ SizeOf \in [MetaKeys -> Nat] /\ MetaLimit \in Nat

VARIABLES
  ctxs,     \* the contexts made so far
  clock,
  spent,    \* the sum of each budget; a budget is a number
  wire      \* the ContextProto on its way, or NoProto

contextVars == <<ctxs, clock, spent, wire>>

NoProto == [sender |-> 0]

(* The request layer of a context without one.                             *)
NoLayer == [layer |-> FALSE, exec |-> 0, parentExec |-> 0, trace |-> 0, recorded |-> Never,
            priority |-> "", budget |-> 0, attempt |-> 0, meta |-> {}]

RootContext == [op |-> "root", parent |-> 0, runtime |-> "local", request |-> NoLayer,
                effective |-> Never, user |-> 0, marked |-> {}]

ContextsInit ==
  /\ ctxs = <<RootContext>>
  /\ clock = 0 /\ spent = <<>> /\ wire = NoProto

-----------------------------------------------------------------------------
Earlier(s, t) == IF s < t THEN s ELSE t
Preferred(value, unset, other) == IF value # unset THEN value ELSE other
SizeOfMeta(keys) == SumFunctionOnSet(SizeOf, keys)

New == Len(ctxs) + 1
Room == Len(ctxs) < MaxContexts

(* The context derived from p, as the last one.                            *)
Derive(p, name, derived) ==
  /\ Room
  /\ ctxs' = Append(ctxs, [derived EXCEPT !.op = name, !.parent = p])
  /\ UNCHANGED <<clock, wire>>

(* WithExecution.  The layer keeps the deadline asked for, the context     *)
(* ends at its parent's if that is sooner.                                 *)
WithExecution(p, timeout, priority) ==
  LET c == ctxs[p]
      deadline == IF timeout = 0 THEN Never ELSE clock + timeout
      request == [c.request EXCEPT !.layer = TRUE, !.exec = New, !.parentExec = c.request.exec,
                    !.trace = Preferred(@, 0, New), !.recorded = deadline,
                    !.priority = priority, !.attempt = 1]
  IN /\ Derive(p, "execution", [c EXCEPT !.effective = Earlier(@, deadline), !.request = request])
     /\ UNCHANGED spent

Child(p, deadline) ==
  LET c == ctxs[p]
  IN /\ Derive(p, "child",
          [c EXCEPT !.effective = deadline,
             !.request = [@ EXCEPT !.layer = TRUE, !.exec = New, !.parentExec = c.request.exec,
                !.recorded = deadline, !.attempt = 1]])
     /\ UNCHANGED spent

(* WithChildExecution, with a timeout of its own or, for 0, its parent's.  *)
(* Mutant: the timeout is not capped by the parent's deadline, whose       *)
(* context it leaves. *)
WithLooseChild(p, timeout) ==
  Child(p, IF timeout = 0 THEN ctxs[p].effective ELSE clock + timeout)

WithChildExecution(p, timeout) ==
  Child(p, IF timeout = 0 THEN ctxs[p].effective
           ELSE Earlier(clock + timeout, ctxs[p].effective))

(* WithAttempt does nothing without a request layer.                       *)
WithAttempt(p) ==
  /\ ctxs[p].request.layer
  /\ Derive(p, "attempt", [ctxs[p] EXCEPT !.request.attempt = 2])
  /\ UNCHANGED spent

Fits(keys) == SizeOfMeta(keys) <= MetaLimit

Layered(c, keys) == [c EXCEPT !.request.layer = TRUE, !.request.meta = @ \cup keys]

(* WithMetadata refuses an entry that would pass the limit.                *)
WithMetadata(p, key) ==
  /\ Fits(ctxs[p].request.meta \cup {key})
  /\ Derive(p, "metadata", Layered(ctxs[p], {key}))
  /\ UNCHANGED spent

WithCostBudget(p) ==
  /\ Derive(p, "budget", [Layered(ctxs[p], {}) EXCEPT !.request.budget = Len(spent) + 1])
  /\ spent' = Append(spent, 0)

WithUser(p) == Derive(p, "user", [ctxs[p] EXCEPT !.user = New]) /\ UNCHANGED spent

(* WithSensitiveVariable marks the key even when the entry is refused.     *)
WithSensitiveVariable(p, key) ==
  LET c == [ctxs[p] EXCEPT !.marked = @ \cup {key}]
  IN /\ Derive(p, "sensitive",
          IF Fits(c.request.meta \cup {key}) THEN Layered(c, {key}) ELSE c)
     /\ UNCHANGED spent

-----------------------------------------------------------------------------
(* Merge, without its session part.  A conflict under the rule "error"     *)
(* makes no context.                                                       *)
MergedUser(b, o, rule) ==
  IF o.user = 0 THEN b.user
  ELSE IF b.user = 0 \/ rule = "overlay" THEN o.user ELSE b.user

Overlaid(b, o) ==
  [b EXCEPT
    !.exec       = Preferred(o.exec, 0, @),
    !.parentExec = Preferred(o.parentExec, 0, @),
    !.trace      = Preferred(o.trace, 0, @),
    !.recorded   = Preferred(o.recorded, Never, @),
    !.priority   = Preferred(o.priority, "", @),
    !.budget     = Preferred(o.budget, 0, @),
    !.attempt    = Preferred(o.attempt, 0, @)]

MergedRequest(b, o, rule) ==
  IF ~o.layer THEN b
  ELSE IF ~b.layer THEN o
  ELSE [(IF rule = "overlay" THEN Overlaid(b, o) ELSE b) EXCEPT !.meta = b.meta \cup o.meta]

Conflict(b, o) ==
  \/ b.user # 0 /\ o.user # 0
  \/ /\ b.request.layer /\ o.request.layer
     /\ \/ o.request.exec \notin {0, b.request.exec}
        \/ b.request.meta \cap o.request.meta # {}

Merge(p, q, rule) ==
  LET b == ctxs[p]
      o == ctxs[q]
  IN /\ b.runtime = o.runtime
     /\ rule = "error" => ~Conflict(b, o)
     /\ Derive(p, "merged", [b EXCEPT !.user = MergedUser(b, o, rule),
                                      !.request = MergedRequest(@, o.request, rule)])
     /\ UNCHANGED spent

-----------------------------------------------------------------------------
(* ToProto, one message at a time: an unknown priority is sent as normal.  *)
ToProto(p) ==
  /\ wire = NoProto
  /\ wire' = [sender |-> p,
              deadline |-> ctxs[p].effective,
              priority |-> IF ctxs[p].request.priority = "" THEN "NORMAL"
                           ELSE ctxs[p].request.priority,
              spent |-> IF ctxs[p].request.budget = 0 THEN 0
                        ELSE spent[ctxs[p].request.budget]]
  /\ UNCHANGED <<ctxs, clock, spent>>

(* Mutant: a deadline is read as a duration from now. *)
RemainingFrozen == IF wire.deadline = Never THEN Never ELSE clock + wire.deadline

(* A deadline that has passed becomes none.                                *)
Remaining == IF wire.deadline <= clock THEN Never ELSE wire.deadline

(* The metadata is added entry by entry in any order while it fits.        *)
Readable(keys) ==
  {kept \in SUBSET keys : Fits(kept) /\ \A k \in keys \ kept : ~Fits(kept \cup {k})}

(* FromProto, in a runtime of its own: execution, trace, priority and      *)
(* deadline need an execution ID; the budget is a copy.                    *)
FromProto ==
  /\ wire # NoProto /\ Room
  /\ LET sent == ctxs[wire.sender].request
         known == sent.exec # 0
         deadline == IF known THEN Remaining ELSE Never
     IN \E kept \in Readable(sent.meta) :
        /\ ctxs' = Append(ctxs,
             [op |-> "wire", parent |-> wire.sender, runtime |-> "remote",
              user |-> ctxs[wire.sender].user, marked |-> {}, effective |-> deadline,
              request |->
                [layer |-> known \/ sent.budget # 0 \/ kept # {},
                 exec |-> sent.exec,
                 parentExec |-> IF known THEN sent.parentExec ELSE 0,
                 trace |-> IF ~known THEN 0 ELSE IF sent.trace = 0 THEN sent.exec ELSE sent.trace,
                 recorded |-> deadline,
                 priority |-> IF known THEN wire.priority ELSE "",
                 budget |-> IF sent.budget = 0 THEN 0 ELSE Len(spent) + 1,
                 attempt |-> IF known THEN 1 ELSE 0,
                 meta |-> kept]])
        /\ spent' = IF sent.budget = 0 THEN spent ELSE Append(spent, wire.spent)
  /\ wire' = NoProto
  /\ UNCHANGED clock

(* AddSpent through a context.                                             *)
Charge(p) ==
  LET cell == ctxs[p].request.budget
  IN /\ cell # 0 /\ spent[cell] < MaxSpent
     /\ spent' = [spent EXCEPT ![cell] = @ + 1]
     /\ UNCHANGED <<ctxs, clock, wire>>

Pass == clock < MaxTime /\ clock' = clock + 1 /\ UNCHANGED <<ctxs, spent, wire>>

ContextsNext ==
  \/ Pass \/ FromProto
  \/ \E p \in DOMAIN ctxs :
       \/ \E t \in Timeouts \cup {0}, priority \in Priorities : WithExecution(p, t, priority)
       \/ \E t \in Timeouts \cup {0} : WithChildExecution(p, t)
       \/ \E k \in MetaKeys : WithMetadata(p, k) \/ WithSensitiveVariable(p, k)
       \/ WithAttempt(p) \/ WithCostBudget(p) \/ WithUser(p) \/ Charge(p) \/ ToProto(p)
       \/ \E q \in DOMAIN ctxs, rule \in {"overlay", "base", "error"} : Merge(p, q, rule)

ContextsSpec == ContextsInit /\ [][ContextsNext]_contextVars

-----------------------------------------------------------------------------
(* Along any chain of derivations, whatever the With functions and their   *)
(* order: no context outlives the one it comes from, and none claims a     *)
(* deadline sooner than its real one; trace, budget, metadata and the      *)
(* marks of sensitive keys are never lost (context.go 154-317).            *)
LineageKept ==
  \A c \in DOMAIN ctxs :
    LET d == ctxs[c]
        p == ctxs[d.parent]
    IN d.op \notin {"root", "wire", "merged"} =>
         /\ d.effective <= p.effective
         /\ d.op \in {"execution", "child"} =>
              d.effective <= d.request.recorded /\ d.request.parentExec = p.request.exec
         /\ p.request.trace # 0 => d.request.trace = p.request.trace
         /\ p.request.budget # 0 /\ d.op # "budget" => d.request.budget = p.request.budget
         /\ p.request.meta \subseteq d.request.meta /\ p.marked \subseteq d.marked

(* A context that goes to another process keeps its execution, its trace   *)
(* and its deadline as a moment in time, however long the message took,    *)
(* until that moment; its metadata arrives whole unless a merge has made   *)
(* it longer than the limit; it has a budget if it had one, and that is    *)
(* not the sender's (serialization.go 60-143).                             *)
WireKept ==
  \A c \in DOMAIN ctxs :
    LET d == ctxs[c]
        p == ctxs[d.parent]
    IN d.op = "wire" =>
         /\ d.request.exec = p.request.exec
         /\ p.request.exec # 0 =>
              /\ p.request.trace # 0 => d.request.trace = p.request.trace
              /\ p.effective > clock => d.effective = p.effective
              /\ d.effective \in {p.effective, Never}
         /\ Fits(p.request.meta) => d.request.meta = p.request.meta
         /\ p.request.budget = 0 => d.request.budget = 0
         /\ p.request.budget # 0 => d.request.budget \notin {0, p.request.budget}
=============================================================================
