---------------------------- MODULE MCAdmission ----------------------------
EXTENDS Admission, TLC

\* One group of two tasks, and a plan of two groups.
SmallPlans == {<<2>>, <<1, 1>>}
NoPlans == {}

\* The allocator does not care which block it hands out.
StackSymmetry == Permutations(Stacks)
=============================================================================
