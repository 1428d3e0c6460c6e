----------------------------- MODULE MCUserinfo -----------------------------
EXTENDS Userinfo, TLC

Symmetry == Permutations(Handlers)

\* One scope of each kind, and one that no attribute is named after, but no openid: a
\* pushed request does not have to name it.
MCGrants == {{"phone", "noa", "marital", "name", "user.identity"}}

\* What is consented to and what is not, in each catalog, a sub, and an attribute that
\* the console has put where the code does not expect it.
MCPersons ==
  {{<<"personal", "sub">>, <<"personal", "name">>, <<"personal", "mobileno">>,
    <<"personal", "race">>, <<"personal", "marital">>, <<"finance", "noa">>,
    <<"finance", "cpfcontributions">>, <<"property", "hdbownership">>}}

MCRows == {{"nric", "name", "mobileno"}}
=============================================================================
