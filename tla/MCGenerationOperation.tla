----------------------- MODULE MCGenerationOperation -----------------------
(* GenerationOperation for TLC. *)
EXTENDS GenerationOperation, TLC

CONSTANTS o1, o2, o3, course, lesson

\* Two courses of one month, for one lock, and a lesson, for another.
CoursesAndLesson == [o \in Ops |-> IF o = o3 THEN lesson ELSE course]

\* Bound: a behaviour uses two of the three keys, those of the two courses or
\* those of a course and the lesson.
Used == {o \in Ops : op[o].status # "none" \/ o \in denied}
TwoUsed == Used \subseteq {o1, o2} \/ Used \subseteq {o1, o3}
PairSpec == Init /\ [][Next /\ TwoUsed']_vars /\ Fairness

Interchangeable == Permutations(Calls)
=============================================================================
