------------------------------ MODULE MCSwitch ------------------------------
(***************************************************************************)
(* Two tasks above an 8-byte flash image.  Task 0 has any word-aligned     *)
(* region, NAPOT or not, empty or inverted, while task 1 has a NAPOT one;  *)
(* then one of them is a machine-mode task.  A register of task t holds a  *)
(* value of that task and register, of one of two generations for task 0.  *)
(***************************************************************************)
EXTENDS Switch

MCTask == {0, 1}
MCFlash == [start |-> 0, end |-> 8]

User(a, b, s) ==
  [region |-> [start |-> a, end |-> b], stack |-> [start |-> a, end |-> b - s], user |-> TRUE]
Machine ==
  [region |-> [start |-> 0, end |-> 0], stack |-> [start |-> 8, end |-> 12], user |-> FALSE]

Pair(l0, l1) == [t \in MCTask |-> IF t = 0 THEN l0 ELSE l1]
MCLayouts ==
  {Pair(User(a, b, s), User(16, 24, 0)) :
     a \in {8, 12, 16}, b \in {12, 16, 20, 24, 28}, s \in {0, 4}}
  \cup {Pair(User(12, 24, 4), Machine), Pair(Machine, User(8, 24, 0))}

File(t, v) == [r \in GPR |-> <<"task", t, r, v>>]
MCContents == [t \in MCTask |-> {File(t, v) : v \in 0 .. (1 - t)}]
MCEntries ==
  {[t \in MCTask |-> [gpr |-> File(t, 0), addr |-> 0, mode |-> m[t]]] : m \in [MCTask -> {"U", "M"}]}
MCResult == {<<"result">>}
MCValue == UNION {{File(t, v)[r] : r \in GPR} : t \in MCTask, v \in 0 .. 1} \cup MCResult

=============================================================================
