------------------------------- MODULE MCBudget -------------------------------
EXTENDS Budget
=============================================================================
