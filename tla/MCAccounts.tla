------------------------------ MODULE MCAccounts ------------------------------
\* Accounts over two owners and one more person: what is asked together.
EXTENDS Accounts
MCScenarios ==
    {[ops |-> {"sign in", "refresh", "sign out", "change password",
               "reset password", "set active"}, about |-> {"u"}],
     [ops |-> {"sign in", "miss", "reset password"}, about |-> {"u"}],
     [ops |-> {"sign in", "set active", "temporary", "credentials",
               "accept invite"}, about |-> {"w"}],
     [ops |-> {"set roles", "set active"}, about |-> {"u", "v"}],
     [ops |-> {"create", "set roles"}, about |-> {"v", "w"}],
     [ops |-> {"create role", "delete role", "set roles"}, about |-> {"v", "teacher"}],
     [ops |-> {"edit role", "sync roles"}, about |-> {"parent", "owner"}]}
=============================================================================
