----------------------------- MODULE MCServices -----------------------------
(***************************************************************************)
(* The values that Services is checked for.                                *)
(***************************************************************************)
EXTENDS Services

CONSTANTS A, B

(* Lists of profiles as windows and other builds write them: older shapes,  *)
(* a trust of another endpoint, unknown protocols, bad entries, duplicates. *)
Profile(id, protocol, host, auth, tls, trust, secret, ssh) ==
  [id |-> id, protocol |-> protocol, name |-> "n", host |-> host, auth |-> auth, save |-> TRUE,
   tls |-> tls, trust |-> trust, secret |-> secret, ssh |-> ssh]
Trust(protocol, host, tls) == [protocol |-> protocol, host |-> host, tls |-> tls]
OfOlderBuild == Profile("i", "", "h", "?", "implicit", None, TRUE, TRUE)
OverTls == Profile("i", "ftps", "h", "password", "?", Trust("ftps", "h", "explicit"), FALSE, TRUE)
InClear == Profile("i", "ftp", "h", "anonymous", "", Trust("ftp", "h", ""), FALSE, FALSE)
WithAgent == Profile("j", "ftp", "g", "agent", "", None, TRUE, FALSE)
Unknown == Profile("j", "webdav", "h", "token", "", None, TRUE, TRUE)
BadId == Profile("bad id", "ftp", "h", "password", "", None, FALSE, FALSE)
NoHost == Profile("j", "sftp", "", "password", "", None, FALSE, FALSE)
ProfileLists ==
  {<<>>, <<OfOlderBuild>>, <<OverTls>>, <<InClear>>, <<OverTls, Unknown>>, <<BadId, WithAgent>>,
   <<NoHost, Unknown>>, <<WithAgent, Unknown>>, <<OfOlderBuild, OverTls>>,
   <<[WithAgent EXCEPT !.name = "long"]>>,
   <<OfOlderBuild, BadId, OfOlderBuild, WithAgent, OverTls>>}
EditableFiles == {<<".js", ".rs", ".htm">>, <<"js">>, <<".JS", "js", "/a">>, <<"/a", "x", ".js">>,
   <<"y", "x", ".js">>}

(* What another build writes while this one works: a newer and an equal version. *)
Meanwhile ==
  {[version |-> 11, files |-> <<".js", ".rs", ".htm">>, list |-> <<OverTls>>],
   [version |-> 10, files |-> <<".JS", "js", "/a">>, list |-> <<OverTls, Unknown>>]}

(* What users type into the database editor, and what shells print.         *)
SqlScripts ==
  {<<"begin", "write", "write">>, <<"commit">>, <<"vacuum", "attach", "write">>, <<"endless">>,
   <<"begin", "write", "commit", "bad">>}
ShellOutputs == {<<"a", "L", "T">>, <<"x", "L", "T">>}

(* Endpoints of FTP profiles: one attempt meets every mode of protection    *)
(* and a change of the certificate, two attempts an update to another host  *)
(* while both hosts' passwords are saved.                                   *)
Endpoint(host, mode, pin, ack, save) ==
  [host |-> host, mode |-> mode, pin |-> pin, ack |-> ack, save |-> save]
AllModes ==
  {Endpoint("x", "plain", None, TRUE, TRUE), Endpoint("x", "plain", None, FALSE, TRUE),
   Endpoint("x", "explicit", None, FALSE, FALSE), Endpoint("x", "explicit", B, FALSE, FALSE),
   Endpoint("y", "implicit", None, FALSE, TRUE)}
TwoHosts ==
  {Endpoint("x", "plain", None, TRUE, TRUE), Endpoint("y", "implicit", None, FALSE, TRUE)}
ConnectMixes ==
  {[attempts |-> {A}, profiles |-> AllModes, certs |-> fmCerts, upsets |-> 1],
   [attempts |-> {A, B}, profiles |-> TwoHosts, certs |-> fmTrusted, upsets |-> 0]}

=============================================================================
