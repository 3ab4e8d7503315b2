------------------------------ MODULE MCSettings ------------------------------
(* Constants for checking Settings: a device that came without the name of a   *)
(* network, a router, and a browser that moves it to an open network.          *)
EXTENDS Settings

\* Saved are the two keys that forms and routers change here.  To save another
\* with the value of cfg.toml, which it keeps, makes no difference to what the
\* next boot loads.
SavedKeys == <<"wifi_ssid", "wifi_psk">>
OtherKeys == {"syslog_hostname", "display_port", "wps_enable", "cdc_retry_enable"}

CfgToml == [wifi_ssid |-> "", wifi_psk |-> "k0", syslog_hostname |-> "bridge",
            display_port |-> "com1", wps_enable |-> "true", cdc_retry_enable |-> "true"]

OpenNetwork == {[wifi_ssid |-> "lab", wifi_psk |-> ""]}
HomeRouter  == {[wifi_ssid |-> "home", wifi_psk |-> "k1"]}
===============================================================================
