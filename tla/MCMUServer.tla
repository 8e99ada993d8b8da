----------------------------- MODULE MCMUServer -----------------------------
(* Small instances of MUServer for TLC: the commands that arrive.          *)
EXTENDS MUServer

CONSTANTS p1, p2, d1, d2

Command(opt, args) == [opt |-> opt, args |-> args]
User(p, d) == [path |-> p, dst |-> d]

\* Bunches that touch both users, change one and delete them; commands
\* that are refused and one that cannot be read.
Kinds == {
    Command("add", <<User(p1, d1), User(p2, d1)>>),
    Command("add", <<User(p1, d1), User(p1, d2)>>),
    Command("del", <<User(p1, d1), User(p2, d1)>>),
    Command("reset", <<>>),
    Command("ping", <<>>),
    Command("add", <<>>),
    Command("other", <<>>), Command("unreadable", <<>>)}
=============================================================================
