----------------------------- MODULE TopicMatch -----------------------------
(***************************************************************************)
(* matchTopic of core/events/bus.go, the loop that decides whether a        *)
(* subscription pattern matches a topic, against what a pattern means.  A   *)
(* pattern or topic is the sequence of its dot-separated segments.          *)
(***************************************************************************)
EXTENDS Integers, Sequences

CONSTANTS
  Segments,   \* what a topic is made of
  Patterns,   \* the patterns tried
  Topics      \* the topics tried

ASSUME TopicAssumption ==
  /\ {"*", "**"} \cap Segments = {}
  /\ \A t \in Topics : t \in Seq(Segments)
  /\ \A p \in Patterns : p \in Seq(Segments \cup {"*", "**"})

VARIABLES
  pattern, topic,
  i,        \* the loop's index, from 1
  answer    \* what matchTopic returned, "none" while it runs

matchVars == <<pattern, topic, i, answer>>

MatchInit ==
  /\ pattern \in Patterns /\ topic \in Topics
  /\ i = 1
  /\ answer = IF pattern = <<"*">> \/ pattern = topic THEN "yes" ELSE "none"

Looping == answer = "none" /\ i <= Len(pattern)

Return(value) == answer' = value /\ UNCHANGED <<pattern, topic, i>>

TailStar == Looping /\ pattern[i] = "**" /\ Return("yes")

TopicEnds == Looping /\ pattern[i] # "**" /\ i > Len(topic) /\ Return("no")

SegmentFits ==
  /\ Looping /\ pattern[i] # "**" /\ i <= Len(topic)
  /\ pattern[i] \in {"*", topic[i]}
  /\ i' = i + 1
  /\ UNCHANGED <<pattern, topic, answer>>

SegmentDiffers ==
  /\ Looping /\ pattern[i] # "**" /\ i <= Len(topic)
  /\ pattern[i] \notin {"*", topic[i]}
  /\ Return("no")

(* Mutant: a prefix of the topic is enough. *)
EndWithoutLength == answer = "none" /\ i > Len(pattern) /\ Return("yes")

PatternEnds ==
  /\ answer = "none" /\ i > Len(pattern)
  /\ Return(IF Len(pattern) = Len(topic) THEN "yes" ELSE "no")

MatchNext == TailStar \/ TopicEnds \/ SegmentFits \/ SegmentDiffers \/ PatternEnds

MatchSpec == MatchInit /\ [][MatchNext]_matchVars

-----------------------------------------------------------------------------
(* What a pattern means: a lone star is anything, a star is any one         *)
(* segment, a double star is whatever is left, possibly nothing, and makes  *)
(* what follows it in the pattern irrelevant.                               *)
PrefixFits(p, t, k) == \A j \in 1..k : p[j] \in {"*", t[j]}

Matches(p, t) ==
  \/ p = <<"*">>
  \/ Len(p) = Len(t) /\ PrefixFits(p, t, Len(p))
  \/ \E k \in 1..Len(p) : p[k] = "**" /\ k <= Len(t) + 1 /\ PrefixFits(p, t, k - 1)

(* matchTopic answers yes exactly for the topics the pattern stands for.    *)
AnswerIsRight == answer # "none" => (answer = "yes" <=> Matches(pattern, topic))
=============================================================================
