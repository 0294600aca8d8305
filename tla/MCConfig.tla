-------------------------------- MODULE MCConfig --------------------------------
(***************************************************************************)
(* Small configurations.                                                   *)
(***************************************************************************)
EXTENDS Config

\* a.b and b.a, and a.b.c
HostPieces == "a.b" :> <<1, 2>> @@ "b.a" :> <<2, 1>> @@ "a.b.c" :> <<1, 2, 3>>

TwoTypes == <<"prod", "dev">>

Plain(v, value) == << <<Unset, v>>, value>>

OperatorSettings ==
  {Plain("ENV", "prod"), Plain("ENV", "staging"), Plain("HOSTNAME", "a.b"),
   Plain("HOSTNAME", "b.a"), << <<"FEDBOX_", "HOSTNAME">>, "a.b.c">>, Plain("HTTPS", "true"),
   Plain("STORAGE", "sqlite"), Plain("STORAGE_PATH", "storage"), Plain("HTTP_PORT", "4000"), Plain("CERT_PATH", "cert"),
   Plain("LISTEN", "host:1")}

\* The variables that are set as in the pairs of a set, and the others unset
Setting(pairs) ==
  [n \in Names |-> IF \E s \in pairs : s[1] = n THEN (CHOOSE s \in pairs : s[1] = n)[2] ELSE Unset]

\* Nothing, or what a unit file may set
Environments == {Setting({}), Setting({Plain("STORAGE_PATH", "."), Plain("ENV", "prod")})}

\* No files; an installation that the server starts in; the same beside a
\* storage with files of its own
Contents(layout, f) ==
  CASE layout # "none" /\ f = <<".", "common">> ->
         {Plain("STORAGE_PATH", "storage"), Plain("HOSTNAME", "a.b")}
    [] layout # "none" /\ f = <<".", "dev">>      -> {Plain("HTTP_PORT", "5000")}
    [] layout # "none" /\ f = <<".", "prod">>     -> {Plain("HTTPS", "true")}
    [] layout = "both" /\ f = <<"storage", "common">> -> {Plain("ENV", "prod")}
    [] layout = "both" /\ f = <<"storage", "prod">> -> {<< <<"FEDBOX_", "HOSTNAME">>, "a.b.c">>}
    [] OTHER -> {}

FileLayouts == {[f \in Files |-> Setting(Contents(l, f))] : l \in {"none", "local", "both"}}

CommandLines ==
  {[env |-> "dev", host |-> "", secure |-> FALSE, path |-> ""],
   [env |-> "prod", host |-> "a.b", secure |-> TRUE, path |-> "storage"]}

=============================================================================
