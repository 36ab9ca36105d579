--------------------------- MODULE MCForumAdmins ----------------------------
(***************************************************************************)
(* ForumAdmins for TLC.  Two forum ids and one name, so that two creations *)
(* race for the name; three users, so that an owner and two supers meet;   *)
(* two requests in progress at a time, begun over and over again.          *)
(***************************************************************************)
EXTENDS ForumAdmins, TLC

Symmetry == Permutations(Request) \cup Permutations(User) \cup Permutations(Forum)
=============================================================================
