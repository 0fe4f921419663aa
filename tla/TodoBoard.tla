------------------------------ MODULE TodoBoard ------------------------------
(***************************************************************************)
(* The todo items of one session and what the store does with them.  An    *)
(* item is its status and the plan it is bound to; the text of an item, its *)
(* evidence and its tags are left out.  An operation that the store refuses *)
(* has a false guard.                                                      *)
(***************************************************************************)
EXTENDS Naturals, FiniteSets

CONSTANTS
    Slots,   \* the places of the bucket: its capacity
    Plans    \* the plans an item can be bound to

Unbound == 0  \* no plan
ASSUME TodoAssumption == IsFiniteSet(Slots) /\ Unbound \in Plans

Open == {"pending", "in_progress", "blocked"}
Terminal == {"completed", "dismissed"}
Items == [status : Open \union Terminal \union {"absent"}, plan : Plans]
NoItem == [status |-> "absent", plan |-> Unbound]
Boards == [Slots -> Items]

Unfinished(board) == {i \in Slots : board[i].status \in Open}
Archive(board) == {i \in Slots : board[i].status \in Terminal}
Blocked(board) == {i \in Slots : board[i].status = "blocked"}
Free(board) == {i \in Slots : board[i].status = "absent"}
InProgress(board) == {i \in Slots : board[i].status = "in_progress"}

\* createTodo: capacity, and one plan for all unfinished items
CanAdd(board, plan) ==
    /\ Free(board) /= {}
    /\ \A i \in Unfinished(board) : board[i].plan = plan
Added(board, plan) ==
    [board EXCEPT ![CHOOSE i \in Free(board) : TRUE] = [status |-> "pending", plan |-> plan]]

\* setTodoPlan with the statuses of the new items: finished items stay, every
\* other item is replaced.  Nothing is written when the new items do not fit.
CanSet(board, new) ==
    /\ \A i \in Archive(board) : new[i] = "absent"
    /\ Cardinality({i \in Slots : new[i] = "in_progress"}) <= 1
    /\ (\A i \in Slots : new[i] = "absent") => Unfinished(board) = {}
PlanSet(board, new, plan) ==
    [i \in Slots |->
        IF i \in Archive(board) THEN board[i]
        ELSE IF new[i] = "absent" THEN NoItem
        ELSE [status |-> new[i], plan |-> plan]]

\* Mutant: several items in progress
StatusSetAlone(board, i, status) == [board EXCEPT ![i].status = status]

\* updateTodo: finished items cannot change, and an item in progress takes the
\* place of the one that was.
CanSetStatus(board, i) == i \in Unfinished(board)
StatusSet(board, i, status) ==
    [j \in Slots |->
        IF j = i THEN [board[j] EXCEPT !.status = status]
        ELSE IF status = "in_progress" /\ j \in InProgress(board)
             THEN [board[j] EXCEPT !.status = "pending"]
        ELSE board[j]]

\* deleteTodo, clearCompletedTodos
Removed(board, gone) == [i \in Slots |-> IF i \in gone THEN NoItem ELSE board[i]]
Completed(board) == {i \in Slots : board[i].status = "completed"}

\* dismissTodo and resumeTodo of a blocked item, dismissUnfinishedTodos
Dismissed(board, these) ==
    [i \in Slots |-> IF i \in these THEN [board[i] EXCEPT !.status = "dismissed"] ELSE board[i]]
Resumed(board, i) == [board EXCEPT ![i].status = "pending"]
=============================================================================
