------------------------------ MODULE MCTunnel -------------------------------
EXTENDS Tunnel

Http(scheme, status, headers, data) ==
  [scheme |-> scheme, user |-> FALSE,
   stream |-> <<status>> \o [k \in 1..headers |-> "header"] \o <<"blank">>
                \o [k \in 1..data |-> "data"]]

(* An answer without its end: the proxy falls silent.                       *)
Silent(scheme) ==
  [scheme |-> scheme, user |-> FALSE, stream |-> <<"2xx", "header">>]

Address(type) == CASE type = 1 -> [k \in 1..4 |-> 0]
                   [] type = 4 -> [k \in 1..16 |-> 0]
                   [] type = 3 -> <<3, 9, 9, 9>>      \* a name of three bytes
                   [] OTHER -> <<>>

Socks(version, method, user, authed, code, type, data) ==
  LET own == <<version, method>> \o (IF method = 2 THEN <<1, authed>> ELSE <<>>)
               \o <<5, code, 0, type>> \o Address(type) \o <<0, 0>>
  IN  [scheme |-> "socks5", user |-> user,
       stream |-> own \o [k \in 1..data |-> 22]]

MCScript ==
  {Http(scheme, status, headers, data) :
     scheme \in {"http", "https"}, status \in {"2xx", "4xx", "junk"},
     headers \in 0..2, data \in 0..2}
  \cup {Silent("http"), Silent("https")}
  \cup {Socks(5, method, user, authed, 0, type, data) :
          method \in {0, 2, 255}, user \in BOOLEAN, authed \in {0, 1},
          type \in {1, 3, 4, 9}, data \in 0..2}
  \cup {Socks(4, 0, FALSE, 0, 0, 1, 0), Socks(5, 0, FALSE, 0, 2, 1, 0)}
==============================================================================
