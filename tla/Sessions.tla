------------------------------ MODULE Sessions ------------------------------
(***************************************************************************)
(* The session store of core/context/session.go and the part of Merge in   *)
(* context.go that writes to it.  Contexts made with WithSession hold the  *)
(* state the store gave them, whatever the store does later; states are    *)
(* read and written under a lock of their own, one call at a time, and a   *)
(* merge of two contexts is a sequence of such calls.                      *)
(***************************************************************************)
EXTENDS Integers, Sequences

CONSTANTS
  SessionIDs,
  Holders,      \* the contexts made with WithSession, each once
  Keys,
  Values,
  Nil,          \* Go's nil, which Get returns for a key that is not there
  Absent,       \* no such key
  Expiries,     \* the values of the store's expiry
  MaxNow,       \* bound: the clock
  MaxWrites,    \* bound: Set and Delete calls beside a merge's
  Rules         \* the conflict strategies of the merge

ASSUME SessionAssumption ==
  /\ Nil \notin Values /\ Absent \notin Values \cup {Nil}
  /\ Expiries \subseteq Nat /\ Expiries # {}
  /\ MaxNow \in Nat /\ MaxWrites \in Nat
  /\ Rules \subseteq {"overlay", "base", "error"}

VARIABLES
  now,
  expiry,
  entry,      \* the store: state and last access of each session, or NoEntry
  content,    \* what each state made so far holds; a state is its number
  held,       \* the session, state and time of each context, or NotYet
  writes,
  merge,      \* where the one Merge is
  base, overlay, rule,
  left,       \* the keys it has still to look at
  key, value, \* the one it looks at
  \* history, read by no action
  least,      \* the shortest expiry there has been
  before,     \* what the two states held when the merge began
  disturbed   \* another call has written to one of them since

storeVars == <<now, expiry, entry, held, least>>
mergeVars == <<merge, base, overlay, rule, left, key, value, before>>
sessionVars == <<now, expiry, entry, content, held, writes, merge, base, overlay,
                 rule, left, key, value, least, before, disturbed>>

NoEntry == [state |-> 0, last |-> 0]
NotYet == [session |-> Absent, state |-> 0, since |-> 0]
Empty == [k \in Keys |-> Absent]

SessionsInit ==
  /\ now = 0
  /\ expiry \in Expiries /\ least = expiry
  /\ entry = [s \in SessionIDs |-> NoEntry]
  /\ content = <<>>
  /\ held = [h \in Holders |-> NotYet]
  /\ writes = 0
  /\ merge = "none" /\ base = 0 /\ overlay = 0 /\ rule = "none"
  /\ left = {} /\ key = Absent /\ value = Nil
  /\ before = <<Empty, Empty>> /\ disturbed = FALSE

-----------------------------------------------------------------------------
(* The store.                                                              *)
Tick ==
  /\ now < MaxNow
  /\ now' = now + 1
  /\ UNCHANGED <<expiry, entry, held, least, content, writes, mergeVars, disturbed>>

SetExpiry ==
  /\ expiry' \in Expiries
  /\ least' = IF expiry' < least THEN expiry' ELSE least
  /\ UNCHANGED <<now, entry, held, content, writes, mergeVars, disturbed>>

Expired(s) == entry[s] # NoEntry /\ now - entry[s].last > expiry

Kept == [s \in SessionIDs |-> IF Expired(s) THEN NoEntry ELSE entry[s]]

CollectGarbage ==
  /\ entry' = Kept
  /\ UNCHANGED <<now, expiry, held, least, content, writes, mergeVars, disturbed>>

(* WithSession: GetOrCreate drops whatever has expired, makes the session  *)
(* a state unless it still has one, and notes the access.                  *)
(* Mutant: only a new session's access is noted. *)
OpenUnrefreshed(h, s) ==
  LET known == Kept[s] # NoEntry
      state == IF known THEN Kept[s].state ELSE Len(content) + 1
  IN /\ held[h] = NotYet
     /\ content' = IF known THEN content ELSE Append(content, Empty)
     /\ entry' = IF known THEN Kept ELSE [Kept EXCEPT ![s] = [state |-> state, last |-> now]]
     /\ held' = [held EXCEPT ![h] = [session |-> s, state |-> state, since |-> now]]
     /\ UNCHANGED <<now, expiry, least, writes, mergeVars, disturbed>>

Open(h, s) ==
  LET known == Kept[s] # NoEntry
      state == IF known THEN Kept[s].state ELSE Len(content) + 1
  IN /\ held[h] = NotYet
     /\ content' = IF known THEN content ELSE Append(content, Empty)
     /\ entry' = [Kept EXCEPT ![s] = [state |-> state, last |-> now]]
     /\ held' = [held EXCEPT ![h] = [session |-> s, state |-> state, since |-> now]]
     /\ UNCHANGED <<now, expiry, least, writes, mergeVars, disturbed>>

(* SessionState.Set and Delete through a context.                          *)
Write(h) ==
  /\ held[h] # NotYet /\ writes < MaxWrites
  /\ writes' = writes + 1
  /\ \E k \in Keys, v \in Values \cup {Absent} :
       content' = [content EXCEPT ![held[h].state][k] = v]
  /\ disturbed' = (disturbed \/ held[h].state \in {base, overlay})
  /\ UNCHANGED <<now, expiry, entry, held, least, mergeVars>>

-----------------------------------------------------------------------------
(* mergeSessionKeys.                                                       *)
Present(state) == {k \in Keys : content[state][k] # Absent}

StartMerge(b, o) ==
  /\ merge = "none"
  /\ held[b] # NotYet /\ held[o] # NotYet
  /\ base' = held[b].state /\ overlay' = held[o].state
  /\ rule' \in Rules
  /\ left' = Present(held[o].state)
  /\ before' = <<content[held[b].state], content[held[o].state]>>
  /\ disturbed' = FALSE
  /\ merge' = "next"
  /\ UNCHANGED <<storeVars, content, writes, key, value>>

(* The list of keys was read at the start, the value is read now: a key    *)
(* deleted meanwhile reads as nil.                                         *)
ReadOverlay ==
  /\ merge = "next"
  /\ \E k \in left :
       /\ key' = k /\ left' = left \ {k}
       /\ value' = IF content[overlay][k] = Absent THEN Nil ELSE content[overlay][k]
  /\ merge' = "read"
  /\ UNCHANGED <<storeVars, content, writes, base, overlay, rule, before, disturbed>>

(* Mutant: under BaseWins the key is set all the same. *)
ReadBaseAnyWins ==
  /\ merge = "read"
  /\ merge' = IF content[base][key] # Absent /\ rule = "error" THEN "failed" ELSE "set"
  /\ UNCHANGED <<storeVars, content, writes, base, overlay, rule, left, key, value, before,
                 disturbed>>

ReadBase ==
  /\ merge = "read"
  /\ merge' = IF content[base][key] = Absent \/ rule = "overlay" THEN "set"
              ELSE IF rule = "error" THEN "failed" ELSE "next"
  /\ UNCHANGED <<storeVars, content, writes, base, overlay, rule, left, key, value, before,
                 disturbed>>

SetBase ==
  /\ merge = "set"
  /\ content' = [content EXCEPT ![base][key] = value]
  /\ merge' = "next"
  /\ UNCHANGED <<storeVars, writes, base, overlay, rule, left, key, value, before, disturbed>>

(* mergeUser and mergeRequest follow and may still find a conflict.        *)
EndMerge ==
  /\ merge = "next" /\ left = {}
  /\ merge' \in {"merged"} \cup (IF rule = "error" THEN {"failed"} ELSE {})
  /\ UNCHANGED <<storeVars, content, writes, base, overlay, rule, left, key, value, before,
                 disturbed>>

Merging == ReadOverlay \/ ReadBase \/ SetBase \/ EndMerge

SessionsNext ==
  \/ Tick \/ SetExpiry \/ CollectGarbage \/ Merging
  \/ \E h \in Holders : Write(h) \/ \E s \in SessionIDs : Open(h, s)
  \/ \E b, o \in Holders : StartMerge(b, o)

SessionsSpec == SessionsInit /\ [][SessionsNext]_sessionVars

-----------------------------------------------------------------------------
SessionsTypeOK ==
  /\ now \in 0..MaxNow
  /\ expiry \in Expiries /\ least \in Expiries /\ least <= expiry
  /\ entry \in [SessionIDs -> [state : Nat, last : 0..MaxNow]]
  /\ content \in Seq([Keys -> Values \cup {Nil, Absent}])
  /\ held \in [Holders -> [session : SessionIDs \cup {Absent}, state : Nat, since : 0..MaxNow]]

(* Two contexts that took the same session no longer apart than the        *)
(* shortest expiry there has been share one state: what one sets the other *)
(* gets.  (Contexts further apart may hold different states of one         *)
(* session, the older one a state the store has forgotten; session.go      *)
(* 63-86.)                                                                 *)
SharedWhileFresh ==
  \A g, h \in Holders :
    /\ held[g] # NotYet /\ held[h] # NotYet
    /\ held[g].session = held[h].session
    /\ held[g].since <= held[h].since /\ held[h].since - held[g].since <= least
    => held[g].state = held[h].state

(* Unless another call writes to one of the two states meanwhile, a merge  *)
(* leaves in the base exactly what its rule says; and one that fails, at   *)
(* the session's own keys or later, has overwritten nothing, although keys *)
(* that only the overlay had may have been added (context.go 567-600).     *)
MergeIsRight ==
  ~disturbed =>
    /\ merge = "merged" =>
         \A k \in Keys : content[base][k] =
           CASE before[2][k] = Absent -> before[1][k]
             [] before[1][k] = Absent -> before[2][k]
             [] OTHER -> IF rule = "overlay" THEN before[2][k] ELSE before[1][k]
    /\ merge = "failed" =>
         \A k \in Keys : content[base][k] \in
           IF before[1][k] = Absent THEN {Absent, before[2][k]} ELSE {before[1][k]}
=============================================================================
