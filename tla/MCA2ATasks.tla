------------------------------ MODULE MCA2ATasks ------------------------------
(* Small instances of A2ATasks: r asks, w works, o is another agent. *)
EXTENDS A2ATasks

CONSTANTS r, w, o

ThreeAgents == {r, w, o}

Task(a, b)          == [from |-> a, to |-> b, about |-> 0, says |-> Nil, context |-> 1]
Status(a, b, says)  == [from |-> a, to |-> b, about |-> 1, says |-> says, context |-> 2]

InState(state) == [Everything EXCEPT !.status = state]
Recent         == [Everything EXCEPT !.since = TRUE]
Statuses       == [Everything EXCEPT !.context = 2, !.target = w]

(* A task, two statuses of its worker, and one that a third agent sends to *)
(* the requester; the requester takes one message at a time, or two.       *)
Reported == [letters |-> <<Task(r, w), Status(w, r, Working), Status(o, r, Failed),
                           Status(w, r, Completed)>>,
             window |-> 1, objectQueue |-> FALSE, faults |-> {}, lists |-> {}]
Crowded  == [Reported EXCEPT !.window = 2, !.lists = {Everything, Recent}]

(* Tasks of which nothing is said, so that each shows how far it has come. *)
Filtered == [Reported EXCEPT !.letters = <<Task(r, o), Task(r, w), Task(r, w)>>,
                             !.lists = {InState(Submitted)}]

(* A task and two statuses, with what may go wrong. *)
Pair      == <<Task(r, w), Status(o, r, Failed), Status(w, r, Completed)>>
Troubled  == [Reported EXCEPT !.letters = Pair, !.window = 2, !.faults = {"nack", "retry"},
                              !.lists = {Everything, InState(Failed)}]
Withdrawn == [Reported EXCEPT !.letters = Pair, !.faults = {"abort"}, !.lists = {Everything, Statuses}]
Restarted == [Reported EXCEPT !.letters = Pair, !.objectQueue = TRUE, !.faults = {"expire", "restart"},
                              !.lists = {Everything}]

(* A task of which nothing is said, whose delivery may fail, and one whose *)
(* last status cannot be read.                                             *)
Silent     == [Reported EXCEPT !.letters = <<Task(r, w)>>, !.faults = {"nack", "retry"}]
Unreadable == [Reported EXCEPT !.letters = <<Task(r, w), Status(w, r, Working), Status(w, r, Nil)>>,
                               !.faults = {"expire"}]

JustReported == {Reported}
AllSetups == {Reported, Crowded, Filtered, Troubled, Withdrawn, Restarted, Silent, Unreadable}
=============================================================================
