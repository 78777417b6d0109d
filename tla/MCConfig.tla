------------------------------ MODULE MCConfig ------------------------------
(* Values for the constants of Config that a .cfg cannot write.            *)
EXTENDS Config

CONSTANTS nas, m1, m2, m3

device(name, mac, own) ==
    [name |-> name, mac |-> mac, interface |-> own, broadcast_ip |-> own,
     port |-> own]

MCNames == {nas, Blank}
MCMACs == {m1, m2, m3, Blank}

\* Lists with a device without a name, one without a MAC, and MACs only.
MCDeviceLists == {<<>>, <<device(nas, m1, "own"), device(Blank, m2, "unset")>>,
                  <<device(nas, Blank, "unset")>>}
MCMACLists == {<<>>, <<Blank, m3>>}

Credentials == {"app_id", "app_secret", "bot_token", "server_url",
                "client_token", "server_token", "admin_token"}

only(set, value) == [s \in Settings |-> IF s \in set THEN value ELSE "unset"]

flags(value, set) == [f \in Flags |-> IF f \in set THEN value ELSE "unset"]

\* Any credentials, with the other settings all present or all absent.
MCFiles ==
    {Missing, Broken} \cup
    {[value |-> only(set \cup rest, "file"),
      flag |-> switches,
      devices |-> devices, macs |-> macs] :
        set \in SUBSET {"app_id", "bot_token", "server_url"},
        rest \in {{}, Settings \ Credentials,
                  {"client_token", "server_token", "admin_token"}},
        switches \in {flags("true", {}), flags("true", {"telegram"}),
                      flags("true", {"server"}),
                      flags("true", {"client", "drop_pending"}),
                      flags("false", {"telegram", "drop_pending"})},
        devices \in MCDeviceLists, macs \in MCMACLists}

\* Nothing, numbers and Booleans that do not parse, and single entries.
MCEnvironments ==
    {[value |-> v, flag |-> f, devices |-> devices, macs |-> macs] :
       v \in {only({}, "env"), only(Numbers, "bad"), only(Settings, "env"),
              only({"app_id", "app_secret", "wol_port"}, "env"),
              only({"client_token", "server_token", "interface"}, "env")},
       f \in {flags("bad", Flags), flags("false", {"telegram", "server"}),
              flags("true", {"server", "feishu"})},
       devices \in MCDeviceLists, macs \in MCMACLists}

\* Any combination of the switches; each entry with its credentials or not.
MCOptions ==
    {[enabled |-> enabled, telegram |-> telegram, client |-> client,
      given |-> given, devices |-> devices, macs |-> macs] :
       enabled \in {TRUE}, telegram \in BOOLEAN, client \in BOOLEAN,
       given \in {{}, {"app_id", "app_secret"},
                  {"bot_token", "proxy_url", "server_url", "client_token",
                   "server_token"}},
       devices \in MCDeviceLists, macs \in MCMACLists}
    \cup {[enabled |-> FALSE, telegram |-> TRUE, client |-> TRUE, given |-> {},
           devices |-> <<>>, macs |-> <<>>]}
=============================================================================
