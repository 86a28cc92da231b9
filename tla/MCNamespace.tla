---------------------------- MODULE MCNamespace ----------------------------
\* An instance of Namespace: which calls the processes make.
EXTENDS Namespace, TLC

Path(a, e) == [abs |-> a, elems |-> e]
a == Path(TRUE, <<"a">>)
ab == Path(TRUE, <<"a", "b">>)
b == Path(TRUE, <<"b">>)
up == Path(FALSE, <<"..">>)
Call(op, from) == [op |-> op, from |-> from, to |-> NoPath]
Link(from, to) == [op |-> "link", from |-> from, to |-> to]

\* One process makes a directory /a, and in it a directory or a second link
\* to the file /b; the other removes what is in /a and /a itself, enters /a/b
\* and walks up from where it is, and makes a device called /b.
Builder == {Call("mkdir", a), Call("mkdir", ab), Call("creat", b), Link(b, ab)}
Remover == {Call("unlink", ab), Call("unlink", a), Call("chdir", ab),
            Call("open", up), Call("mknod", b)}

CONSTANTS p1, p2
TreeCalls == p1 :> Builder @@ p2 :> Remover

\* Nothing is claimed of what happens after a process has walked up from a
\* removed directory.
NotStrayed == ~strayed
=============================================================================
