------------------------------ MODULE Cookies ------------------------------
(***************************************************************************)
(* Cookies of the stateless retry (CookieCipher, AeadCookieCipher).  A     *)
(* hello is the record of what it offers; config is what the server        *)
(* supports, in order of preference.                                       *)
(***************************************************************************)
EXTENDS TokenCipher

Negotiate(preferred, offered) ==
  LET common == SelectSeq(preferred, LAMBDA p : p \in offered)
  IN IF common = <<>> THEN None ELSE Head(common)

(* No group is asked for when the share the server wants is there, or when *)
(* no group fits: the full handshake deals with that.                      *)
HrrGroup(config, hello) ==
  LET group == Negotiate(config.groups, hello.groups)
  IN IF group \in hello.shares THEN None ELSE group

CookieFails(config, hello) ==
  \/ Negotiate(config.versions, hello.versions) = None
  \/ Negotiate(config.ciphers, hello.ciphers) = None

CookieState(config, hello, appToken) ==
  [version |-> Negotiate(config.versions, hello.versions),
   cipher |-> Negotiate(config.ciphers, hello.ciphers),
   group |-> HrrGroup(config, hello),
   chloHash |-> hello,
   appToken |-> appToken]

(* The fields on the wire: an absent group takes a flag and no value.      *)
EncodeCookie(s) ==
  <<s.version, s.cipher>>
    \o (IF s.group = None THEN <<"No">> ELSE <<"Yes", s.group>>)
    \o <<s.chloHash, s.appToken, "No">>

DecodeCookie(f) ==
  LET n == IF f[3] = "Yes" THEN 4 ELSE 3
  IN [version |-> f[1], cipher |-> f[2],
      group |-> IF f[3] = "Yes" THEN f[4] ELSE None,
      chloHash |-> f[n + 1], appToken |-> f[n + 2]]

StatelessRetry(state, cookie) ==
  [version |-> state.version, cipher |-> state.cipher,
   group |-> state.group, cookie |-> cookie]
=============================================================================
