----------------------------- MODULE MCExecutor -----------------------------
(* Small instances of Executor: two futures for the first task and one for *)
(* the second, or one task with one future.                                *)
EXTENDS Executor

CONSTANTS t1, t2, f1, f2, f3

OneTask   == {t1}
TwoTasks  == {t1, t2}
OneFut    == {f1}
ThreeFuts == {f1, f2, f3}

AwaitOne   == [f \in OneFut |-> t1]
AwaitThree == [f \in ThreeFuts |-> IF f = f3 THEN t2 ELSE t1]
=============================================================================
