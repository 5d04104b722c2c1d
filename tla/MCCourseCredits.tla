-------------------------- MODULE MCCourseCredits --------------------------
(* CourseCredits for TLC, with small plans. *)
EXTENDS CourseCredits, TLC

SmallAllocation == [p \in Plans |-> CASE p = "free" -> 0 [] p = "plus" -> 1 [] p = "pro" -> 2]
SmallCap == [p \in Plans |-> CASE p = "free" -> 0 [] p = "plus" -> 2 [] p = "pro" -> 4]

Interchangeable == Permutations(Requests) \cup Permutations(Courses)
=============================================================================
