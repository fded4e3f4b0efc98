----------------------------- MODULE MCIdentity -----------------------------
(* Identity with values of a few tokens of each type.                      *)
EXTENDS Identity, TLC

AllTypes == {"domain", "url", "hash", "email", "ipv4", "text"}

UrlsOnly == {"url"}

Both(s) == [meant |-> s, raw |-> s]

\* What a URL starts with, plainly and defanged.
Http == <<"http", ":", "/", "/">>
Schemes ==
    {[meant |-> Http, raw |-> r] :
        r \in {Http, <<"HTTP", ":", "/", "/">>, <<"hxxp", ":", "/", "/">>,
               <<"hxxp", "[", ":", "/", "/", "]">>, <<"HXXP", "[", ":", "]", "/", "/">>}}
    \cup {Both(<<"https", ":", "/", "/">>)}

\* Local parts of e-mail addresses, plainly and defanged.
Addressees ==
    {[meant |-> <<"a", "@">>, raw |-> r] : r \in {<<"a", "@">>, <<"a", "[at]">>}}
    \cup {[meant |-> <<"a", ".", "a", "@">>, raw |-> r] :
            r \in {<<"a", ".", "a", "@">>, <<"a", "[", ".", "]", "a", "@">>}}

SeedsOf ==
    [t \in AllTypes |->
        CASE t = "url" -> Schemes
          [] t = "ipv4" -> {Both(<<"1", ".", "1", ".", "1">>)}
          [] t = "email" -> {Both(<<>>)} \cup Addressees
          [] OTHER -> {Both(<<>>)}]

AlphabetOf ==
    [domain |-> {"a", "1", ".", "-", "[", "]"},
     url |-> {"a", ".", "/", ":", "80", "#", "[", "]", "{dot}"},
     hash |-> {"a", "b", "1", "."},
     email |-> {"a", ".", "[", "]", "[at]"},
     ipv4 |-> {"1", ".", "[", "]"},
     text |-> {"a", ".", "[", "]"}]

LengthOf ==
    [domain |-> 5, url |-> 8, hash |-> 4, email |-> 6, ipv4 |-> 9, text |-> 5]
=============================================================================
