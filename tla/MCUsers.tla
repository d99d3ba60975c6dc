------------------------------ MODULE MCUsers ------------------------------
(***************************************************************************)
(* Users on a small instance: two admins.                                  *)
(***************************************************************************)
EXTENDS Users

\* A password within the policy, and one without a digit, which only the seed takes.
Strong == [chars |-> 8, bytes |-> 8, classes |-> {"upper", "digit", "special"}]
NoDigit == [chars |-> 8, bytes |-> 8, classes |-> {"upper", "special"}]
MCPasswords == {Strong, NoDigit}

\* Lists that overlap in one role, in both orders, one that overlaps with none, and
\* one with a name twice.
MCRoleLists ==
  {<<"admin">>, <<"viewer">>, <<"admin", "viewer">>, <<"viewer", "admin">>,
   <<"editor">>, <<"viewer", "viewer">>}

MCInitialRows ==
  LET AdminUser(name) == [name |-> name, email |-> None, pwd |-> NoDigit,
                          roles |-> {"admin"}, deleted |-> FALSE]
  IN {<<AdminUser("admin"), AdminUser("bob")>>}
=============================================================================
