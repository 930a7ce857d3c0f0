---------------------------- MODULE MCMailImport ----------------------------
(***************************************************************************)
(* Instances of MailImport for TLC.  The bounds make sums of situations:   *)
(* polls that overlap on a mailbox, one poll that fills the inbox while a  *)
(* person works on it, and people whose requests overlap on one batch.     *)
(***************************************************************************)
EXTENDS MailImport, TLC

Set(action, unprocessable, search) ==
    [action |-> action, unprocessable |-> unprocessable, search |-> search]
Again == Set("delete", "delete", "ALL")
Once == Set("mark_seen", "keep", "UNSEEN")
MoveAway == Set("move", "move", "UNSEEN")
MCSettings == {Again, Once}

None == [uploads |-> 0, items |-> 0, requests |-> 0, discards |-> TRUE, crashes |-> 0,
         mails |-> 0, polls |-> 0, imports |-> 0, errors |-> 0, edits |-> 0,
         targets |-> {"inbox"}, settings |-> {Once}]

MCBounds ==
    {[None EXCEPT !.polls = 2, !.mails = 2, !.crashes = 1, !.errors = 1, !.edits = 1,
                  !.targets = {"fixed"}, !.settings = MCSettings],
     [None EXCEPT !.polls = 2, !.mails = 1, !.items = 3, !.crashes = 1],
     [None EXCEPT !.polls = 1, !.mails = 1, !.items = 3, !.requests = 1, !.errors = 1],
     [None EXCEPT !.uploads = 1, !.items = 2, !.requests = 2],
     [None EXCEPT !.uploads = 1, !.items = 2, !.requests = 1, !.crashes = 2],
     [None EXCEPT !.imports = 2, !.items = 2, !.errors = 1, !.crashes = 1,
                  !.targets = {"fixed", "inbox"}],
     [None EXCEPT !.polls = 1, !.mails = 2, !.errors = 1, !.edits = 1, !.targets = {"rules"},
                  !.settings = {MoveAway}]}

\* two polls of a mailbox whose mails are moved away
MoveBounds ==
    {[None EXCEPT !.polls = 2, !.mails = 3, !.targets = {"fixed"}, !.settings = {MoveAway}]}

\* a mail with a PDF of two pages and another attachment, and one with none
MCAttached == <<<<<<"a", "b">>, <<"b">>>>, <<>>>>
MCThree == <<<<<<"a">>>>, <<>>, <<<<"b">>>>>>
MCSender == <<"x", "x">>
MCSenders == <<"x", "x", "x">>

Symmetric == Permutations(Polls) \cup Permutations(Requests)

=============================================================================
