--------------------------- MODULE NGObjWebConfig ---------------------------
(***************************************************************************)
(* The per-directory configuration of the Apache module (mod_ngobjweb/     *)
(* config.c): the configuration directives, and the merge Apache performs  *)
(* along the sections that apply to a request.  A port is the path of a    *)
(* Unix domain socket or a TCP port.                                       *)
(***************************************************************************)
CONSTANTS
    UnixPorts,      \* port strings that begin with '/'
    InetPorts,      \* all others
    AppPrefixes,    \* application prefixes
    NULL            \* an unset string

ASSUME PortsDisjoint == UnixPorts \cap InetPorts = {}
ASSUME NullIsUnset == NULL \notin UnixPorts \cup InetPorts \cup AppPrefixes

Ports == UnixPorts \cup InetPorts
Domains == {"AF_UNIX", "AF_INET"}

\* ngobjweb_dir_config; useHTTP is set and merged, but read nowhere.
DirConfig == [snsPort : Ports \cup {NULL}, snsPortDomain : Domains,
              appPort : Ports \cup {NULL}, appPortDomain : Domains,
              appPrefix : AppPrefixes \cup {NULL}, useHTTP : BOOLEAN]

domainFromPort(port) == IF port \in UnixPorts THEN "AF_UNIX" ELSE "AF_INET"

create_dir_config ==
    [snsPort |-> NULL, snsPortDomain |-> "AF_UNIX",
     appPort |-> NULL, appPortDomain |-> "AF_INET",
     appPrefix |-> NULL, useHTTP |-> FALSE]

set_sns_port(cfg, port) ==
    [cfg EXCEPT !.snsPort = port, !.snsPortDomain = domainFromPort(port)]

set_app_port(cfg, port) ==
    [cfg EXCEPT !.appPort = port, !.appPortDomain = domainFromPort(port)]

set_app_prefix(cfg, prefix) == [cfg EXCEPT !.appPrefix = prefix]

set_use_http(cfg) == [cfg EXCEPT !.useHTTP = TRUE]

\* The string of the inner section, or else the one of the outer section.
inherited(base, add) == IF add # NULL THEN add ELSE base

\* The domain follows the port that is taken; without one it is the inner
\* section's, which is never 0 once create_dir_config has made it.
mergedDomain(port, addDomain) == IF port # NULL THEN domainFromPort(port) ELSE addDomain

merge_dir_configs(base, add) ==
    LET snsPort == inherited(base.snsPort, add.snsPort)
        appPort == inherited(base.appPort, add.appPort)
    IN [snsPort |-> snsPort,
        snsPortDomain |-> mergedDomain(snsPort, add.snsPortDomain),
        appPort |-> appPort,
        appPortDomain |-> mergedDomain(appPort, add.appPortDomain),
        appPrefix |-> inherited(base.appPrefix, add.appPrefix),
        useHTTP |-> add.useHTTP \/ base.useHTTP]

\* A configured port is always addressed in its own domain: socket() and the
\* address built for connect() agree, however sections were merged.
PortsInDomain(cfg) ==
    /\ cfg.snsPort # NULL => cfg.snsPortDomain = domainFromPort(cfg.snsPort)
    /\ cfg.appPort # NULL => cfg.appPortDomain = domainFromPort(cfg.appPort)
=============================================================================
