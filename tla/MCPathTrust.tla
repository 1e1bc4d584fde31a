----------------------------- MODULE MCPathTrust -----------------------------
(* PathTrust for a file in the third directory, with nodes of the sorts that *)
(* both the check and the other users tell apart: sound, theirs, sticky      *)
(* or not and open to everyone, of the group; a link; nothing at all.        *)
EXTENDS PathTrust

A(kind, owner, perm, sticky) ==
    [kind |-> kind, owner |-> owner, perm |-> perm, sticky |-> sticky]

MCNodes ==
    {A("dir", "root", "owner", FALSE), A("dir", "them", "owner", FALSE),
     A("dir", "them", "world", TRUE), A("dir", "root", "world", FALSE),
     A("dir", "root", "world", TRUE), A("dir", "us", "group", FALSE),
     A("link", "root", "world", FALSE), A("link", "them", "world", FALSE),
     A("file", "root", "owner", FALSE), A("file", "them", "owner", FALSE),
     A("file", "us", "group", FALSE),
     A("none", "root", "owner", FALSE)}

=============================================================================
