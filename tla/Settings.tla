-------------------------------- MODULE Settings --------------------------------
(***************************************************************************)
(* The stored configuration (httpserver.rs), the boot log (boot_log.rs),   *)
(* the boot of main.rs with Wi-Fi protected setup (wifi.rs), and what ends *)
(* a boot: the browser's reboot, the button's factory reset, power loss.   *)
(*                                                                         *)
(* A key of NVS is written whole and lasts; a sequence of keys may be cut  *)
(* short anywhere.  A form maps the keys it has to values.  httpd serves   *)
(* one request at a time.                                                  *)
(***************************************************************************)
EXTENDS Integers, Sequences, SequencesExt, FiniteSetsExt, Functions

CONSTANTS
  Keys,         \* keys of nvs_write_all, in order
  Unsaved,      \* the other keys load_config reads: never written, or never changed
  Default,      \* cfg.toml, with the ports a display can show
  Shown,
  Empty,        \* the empty string
  Forms,        \* what browsers post to /api/config
  Browser,
  Router,       \* records of the Wi-Fi keys that routers may give
  None,
  MAX_ENTRIES,  \* entries of the boot log
  MaxBoots, MaxRequests  \* bounds: boots; saves, resets and reboots by browsers

VARIABLES
  nvs,      \* namespace usbotg_cfg: the keys it has
  boot,     \* namespace boot_log: count and log
  main,     \* program counter of main, its nvs_config, the count it read
  wps,      \* WPS_SUCCESS, _FAILED and _GOT_CREDS, the buffers, the driver's config
  config,   \* ConfigState.config
  session,  \* whose cookie holds the token, or None
  live,     \* host name of the logger, port of the display
  httpd,    \* keys the save in progress has left, ok; "stuck": in esp_restart
  button,   \* the very long press
  reboot,   \* the thread of that name
  restart,  \* esp_restart: called or hung; wdt: the task watchdog is armed
  requests, \* counter
  hist      \* history: router, what the router of this boot gave; same, the
            \* last writing of nvs had no failure; log, nor has the boot log

flash   == <<nvs, boot>>
booting == <<main, wps>>
web     == <<config, session, live, httpd, requests>>
ending  == <<button, reboot, restart>>
vars    == <<flash, booting, web, ending, hist>>

Key   == Range(Keys) \cup Unsaved
Value == Range(Default) \cup {Empty} \cup UNION {Range(f) : f \in Forms \cup Router}

WifiKeys == {"wifi_ssid", "wifi_psk"}

\* post_config takes no key from a form that nvs_write_all does not write.
ASSUME SettingsAssumption ==
  /\ Keys \in Seq(Range(Keys)) /\ WifiKeys \subseteq Range(Keys)
  /\ Default \in [Key -> Value]
  /\ \A form \in Forms : DOMAIN form \subseteq Range(Keys)
  /\ \A r \in Router : DOMAIN r \subseteq WifiKeys
  /\ None \notin Router
  /\ MAX_ENTRIES \in Nat \ {0} /\ MaxBoots \in Nat /\ MaxRequests \in Nat

MainTask == [at : {"off", "count", "log", "load", "wifi", "wps", "wps_ssid", "wps_psk",
                   "serve", "logger", "up"},
             config : [Key -> Value], count : 0 .. MaxBoots, boots : 0 .. MaxBoots]
Wps      == [success : BOOLEAN, failed : BOOLEAN, got_creds : BOOLEAN,
             buf : Router \cup {None}, sta : Router \cup {None}]
Httpd    == [at : {"off", "idle", "save", "stuck"}, left : Seq(Range(Keys)), ok : BOOLEAN]
Hist     == [router : Router \cup {None}, same : BOOLEAN, log : BOOLEAN]

TypeOK ==
  /\ DOMAIN nvs \subseteq Range(Keys) /\ Range(nvs) \subseteq Value
  /\ boot \in [count : 0 .. MaxBoots, log : Seq(1 .. MaxBoots)]
  /\ main \in MainTask /\ wps \in Wps
  /\ config \in [Key -> Value] /\ session \in Browser \cup {None} /\ httpd \in Httpd
  /\ button \in {"up", "reset", "erased"} /\ reboot \in {"none", "sleep", "done"}
  /\ restart \in [at : {"none", "called", "hung"}, wdt : BOOLEAN]
  /\ requests \in 0 .. MaxRequests
  /\ hist \in Hist

NoWps   == [success |-> FALSE, failed |-> FALSE, got_creds |-> FALSE, buf |-> None, sta |-> None]
NoHttpd == [at |-> "off", left |-> <<>>, ok |-> TRUE]
NotLive == [syslog_hostname |-> None, display_port |-> "com1"]
Running == [at |-> "none", wdt |-> FALSE]

Init ==
  /\ nvs = [k \in {} |-> Empty]
  /\ boot = [count |-> 0, log |-> <<>>]
  /\ main = [at |-> "off", config |-> Default, count |-> 0, boots |-> 0]
  /\ wps = NoWps
  /\ config = Default /\ session = None /\ live = NotLive /\ httpd = NoHttpd /\ requests = 0
  /\ button = "up" /\ reboot = "none" /\ restart = Running
  /\ hist = [router |-> None, same |-> TRUE, log |-> TRUE]

\* The memory is lost.
Off ==
  /\ main' = [main EXCEPT !.at = "off", !.config = Default, !.count = 0]
  /\ wps' = NoWps
  /\ config' = Default /\ session' = None /\ live' = NotLive /\ httpd' = NoHttpd
  /\ button' = "up" /\ reboot' = "none" /\ restart' = Running
  /\ hist' = [hist EXCEPT !.router = None, !.same = TRUE]
  /\ UNCHANGED <<flash, requests>>

-------------------------------------------------------------------------------
(* NVS                                                                     *)

\* nvs_set_str, or a value that is no C string: the key lasts, or stays as it was.
SetStr(key, value, ok) ==
  nvs' = IF ok THEN [k \in DOMAIN nvs \cup {key} |-> IF k = key THEN value ELSE nvs[k]]
               ELSE nvs

\* When the erasing fails, some keys may be gone.
nvs_erase_namespace(ok) ==
  IF ok THEN nvs' = [k \in {} |-> Empty]
        ELSE \E kept \in SUBSET DOMAIN nvs : nvs' = Restrict(nvs, kept)

load_config ==
  [k \in Key |-> IF k \in DOMAIN nvs /\ nvs[k] # Empty THEN nvs[k] ELSE Default[k]]

-------------------------------------------------------------------------------
(* main, until the HTTP server runs                                        *)

PowerOn ==
  /\ main.at = "off" /\ main.boots < MaxBoots
  /\ main' = [main EXCEPT !.at = "count", !.boots = @ + 1]
  /\ UNCHANGED <<flash, wps, web, ending, hist>>

\* record_boot: the namespace may not open; a write may fail unnoticed.
record_count ==
  /\ main.at = "count"
  /\ \/ \E ok \in BOOLEAN :
          /\ boot' = [boot EXCEPT !.count = IF ok THEN @ + 1 ELSE @]
          /\ hist' = [hist EXCEPT !.log = @ /\ ok]
          /\ main' = [main EXCEPT !.at = "log", !.count = boot.count + 1]
     \/ /\ main' = [main EXCEPT !.at = "load"]
        /\ UNCHANGED <<boot, hist>>
  /\ UNCHANGED <<nvs, wps, web, ending>>

\* Mutant: the new entry goes behind the others.
prepend_entry_last(new, existing) ==
  LET all == Append(existing, new) IN SubSeq(all, Max({1, Len(all) - MAX_ENTRIES + 1}), Len(all))

prepend_entry(new, existing) == SubSeq(<<new>> \o existing, 1, Min({MAX_ENTRIES, Len(existing) + 1}))

record_log ==
  /\ main.at = "log"
  /\ \E ok \in BOOLEAN :
       boot' = [boot EXCEPT !.log = IF ok THEN prepend_entry(main.count, @) ELSE @]
  /\ main' = [main EXCEPT !.at = "load", !.count = 0]
  /\ UNCHANGED <<nvs, wps, web, ending, hist>>

\* set_display_port ignores what is no port.
set_display_port(name) == IF name \in Shown THEN name ELSE live.display_port

\* Then the button thread is started; a display that is not enabled has no port.
load ==
  /\ main.at = "load"
  /\ main' = [main EXCEPT !.at = "wifi", !.config = load_config]
  /\ \E port \in {set_display_port(load_config["display_port"]), live.display_port} :
       live' = [live EXCEPT !.display_port = port]
  /\ UNCHANGED <<flash, wps, config, session, httpd, requests, ending, hist>>

\* Without the name of a network WPS may ask the router for one; otherwise
\* wifi_connect, whatever comes of it.
wifi ==
  /\ main.at = "wifi"
  /\ LET ask == main.config["wps_enable"] = "true" /\ main.config["wifi_ssid"] = Empty IN
       main' = [main EXCEPT !.at = IF ask THEN "wps" ELSE "serve"]
  /\ UNCHANGED <<flash, wps, web, ending, hist>>

\* The event of a success has credentials, or the driver's configuration has.
\* The buffers are filled, and WPS_GOT_CREDS set, before WPS_SUCCESS.
wps_event_creds(r) ==
  /\ main.at = "wps" /\ hist.router = None /\ ~wps.failed
  /\ wps' = [wps EXCEPT !.buf = r, !.got_creds = TRUE]
  /\ hist' = [hist EXCEPT !.router = r]
  /\ UNCHANGED <<flash, main, web, ending>>

wps_event_config(r) ==
  /\ main.at = "wps" /\ hist.router = None /\ ~wps.failed
  /\ wps' = [wps EXCEPT !.sta = r, !.success = TRUE]
  /\ hist' = [hist EXCEPT !.router = r]
  /\ UNCHANGED <<flash, main, web, ending>>

\* Mutant: WPS_SUCCESS does not wait for the credentials.
wps_event_success_early ==
  /\ main.at = "wps" /\ ~wps.success
  /\ wps' = [wps EXCEPT !.success = TRUE]
  /\ UNCHANGED <<flash, main, web, ending, hist>>

wps_event_success ==
  /\ main.at = "wps" /\ wps.got_creds /\ ~wps.success
  /\ wps' = [wps EXCEPT !.success = TRUE]
  /\ UNCHANGED <<flash, main, web, ending, hist>>

\* WPS failed, or the driver's time is over.
wps_event_failed ==
  /\ main.at = "wps" /\ ~wps.failed /\ hist.router = None
  /\ wps' = [wps EXCEPT !.failed = TRUE]
  /\ UNCHANGED <<flash, main, web, ending, hist>>

\* A poll of wifi_connect_wps: a failure first, then a success, whose
\* connection may fail, or none within the time.
wps_poll ==
  /\ main.at = "wps"
  /\ LET got == IF wps.got_creds THEN wps.buf ELSE wps.sta
     IN  \/ main' = [main EXCEPT !.at = "serve"]
         \/ /\ wps.success /\ ~wps.failed
            /\ main' = [main EXCEPT !.at = "wps_ssid", 
                 !.config = [k \in Key |-> IF got = None \/ k \notin DOMAIN got THEN @[k] ELSE got[k]]]
  /\ wps' = NoWps
  /\ UNCHANGED <<flash, web, ending, hist>>

\* nvs_write_wifi_creds, whose result is not looked at.
wps_write(at, key, next) ==
  /\ main.at = at
  /\ \E ok \in BOOLEAN :
       /\ SetStr(key, main.config[key], ok)
       /\ hist' = [hist EXCEPT !.same = @ /\ ok]
  /\ main' = [main EXCEPT !.at = next]
  /\ UNCHANGED <<boot, wps, web, ending>>

\* ConfigState::new; the server may fail to start.
start_http_server ==
  /\ main.at = "serve"
  /\ config' = main.config
  /\ \E at \in {"off", "idle"} : httpd' = [httpd EXCEPT !.at = at]
  /\ main' = [main EXCEPT !.at = "logger"]
  /\ UNCHANGED <<flash, wps, session, live, requests, ending, hist>>

\* Seconds later, if enabled, and it may fail.
init_logger ==
  /\ main.at = "logger"
  /\ \E name \in {None, main.config["syslog_hostname"]} :
       live' = [live EXCEPT !.syslog_hostname = name]
  /\ main' = [main EXCEPT !.at = "up"]
  /\ UNCHANGED <<flash, wps, config, session, httpd, requests, ending, hist>>

-------------------------------------------------------------------------------
(* Requests of browsers                                                    *)

login(b) ==
  /\ httpd.at = "idle"
  /\ session' = b
  /\ UNCHANGED <<flash, booting, config, live, httpd, requests, ending, hist>>

\* Whoever asks.
logout ==
  /\ httpd.at = "idle"
  /\ session' = None
  /\ UNCHANGED <<flash, booting, config, live, httpd, requests, ending, hist>>

is_auth(b) ==
  /\ httpd.at = "idle" /\ session = b
  /\ requests < MaxRequests /\ requests' = requests + 1

update_logger_config(name) == IF live.syslog_hostname = None THEN None ELSE name

\* The memory first; when the namespace does not open, nothing else.
post_config(b, form) ==
  /\ is_auth(b)
  /\ config' = [k \in Key |-> IF k \in DOMAIN form THEN form[k] ELSE config[k]]
  /\ live' = [display_port |-> set_display_port(config'["display_port"]),
              syslog_hostname |-> update_logger_config(config'["syslog_hostname"])]
  /\ \/ httpd' = [at |-> "save", left |-> Keys, ok |-> TRUE] /\ hist' = hist
     \/ httpd' = httpd /\ hist' = [hist EXCEPT !.same = FALSE]
  /\ UNCHANGED <<flash, booting, session, ending>>

\* Mutant: the rest is skipped, and the answer is 200, when a key fails.
nvs_write_key_silent ==
  /\ httpd.at = "save"
  /\ \E ok \in BOOLEAN :
       /\ SetStr(Head(httpd.left), config[Head(httpd.left)], ok)
       /\ httpd' = IF Len(httpd.left) > 1 /\ ok THEN [httpd EXCEPT !.left = Tail(@)]
                   ELSE [NoHttpd EXCEPT !.at = "idle"]
       /\ hist' = IF httpd'.at = "idle" THEN [hist EXCEPT !.same = TRUE] ELSE hist
  /\ UNCHANGED <<boot, booting, config, session, live, requests, ending>>

\* nvs_write_all goes on when a key fails; the answer is 200 or 500.
nvs_write_key ==
  /\ httpd.at = "save"
  /\ \E ok \in BOOLEAN :
       /\ SetStr(Head(httpd.left), config[Head(httpd.left)], ok)
       /\ httpd' = IF Len(httpd.left) > 1
                     THEN [httpd EXCEPT !.left = Tail(@), !.ok = @ /\ ok]
                     ELSE [NoHttpd EXCEPT !.at = "idle"]
       /\ hist' = IF httpd'.at = "idle" THEN [hist EXCEPT !.same = httpd.ok /\ ok] ELSE hist
  /\ UNCHANGED <<boot, booting, config, session, live, requests, ending>>

\* The answer is 200 even if the erasing fails; what is live stays.
post_reset(b) ==
  /\ is_auth(b)
  /\ \E ok \in BOOLEAN :
       /\ nvs_erase_namespace(ok)
       /\ hist' = [hist EXCEPT !.same = ok]
  /\ config' = Default
  /\ UNCHANGED <<boot, booting, session, live, httpd, ending>>

\* The session is gone.  Nothing happens when the answer cannot be sent; when
\* no thread can be had, the handler itself restarts.
post_reboot(b) ==
  /\ is_auth(b)
  /\ session' = None
  /\ \/ UNCHANGED <<httpd, ending>>
     \/ reboot' = "sleep" /\ UNCHANGED <<httpd, button, restart>>
     \/ /\ httpd' = [httpd EXCEPT !.at = "stuck"]
        /\ restart' = [restart EXCEPT !.at = "called"]
        /\ UNCHANGED <<button, reboot>>
  /\ UNCHANGED <<flash, booting, config, live, hist>>

-------------------------------------------------------------------------------
(* The end of a boot                                                       *)

\* Mutant: no watchdog is armed.
reboot_thread_unwatched ==
  /\ reboot = "sleep"
  /\ reboot' = "done"
  /\ restart' = [restart EXCEPT !.at = "called"]
  /\ UNCHANGED <<flash, booting, web, button, hist>>

\* After half a second, and with the watchdog armed, esp_restart.
reboot_thread ==
  /\ reboot = "sleep"
  /\ reboot' = "done"
  /\ restart' = [at |-> "called", wdt |-> TRUE]
  /\ UNCHANGED <<flash, booting, web, button, hist>>

\* The button thread runs; the key is held for ten seconds.
very_long_press ==
  /\ main.at \notin {"off", "count", "log", "load"} /\ button = "up"
  /\ button' = "reset"
  /\ UNCHANGED <<flash, booting, web, reboot, restart, hist>>

\* factory_reset: whether or not the erasing succeeds, esp_restart.
factory_reset ==
  /\ button = "reset"
  /\ \E ok \in BOOLEAN : nvs_erase_namespace(ok)
  /\ button' = "erased"
  /\ UNCHANGED <<boot, booting, web, reboot, restart, hist>>

factory_restart ==
  /\ button = "erased" /\ restart.at = "none"
  /\ restart' = [restart EXCEPT !.at = "called"]
  /\ UNCHANGED <<flash, booting, web, button, reboot, hist>>

\* esp_restart resets the chip, or one of its shutdown handlers never returns.
esp_restart == restart.at = "called" /\ Off

hang ==
  /\ restart.at = "called"
  /\ restart' = [restart EXCEPT !.at = "hung"]
  /\ UNCHANGED <<flash, booting, web, button, reboot, hist>>

\* The watched task has not come back for five seconds: panic, and reset.
watchdog == restart.wdt /\ Off

PowerLoss == main.at # "off" /\ Off

-------------------------------------------------------------------------------
wps_events == \/ \E r \in Router : wps_event_creds(r) \/ wps_event_config(r)
              \/ wps_event_success \/ wps_event_failed
main_task  == \/ record_count \/ record_log \/ load \/ wifi \/ wps_poll
              \/ wps_write("wps_ssid", "wifi_ssid", "wps_psk")
              \/ wps_write("wps_psk", "wifi_psk", "serve")
              \/ start_http_server \/ init_logger
requested  == \/ \E b \in Browser : \/ login(b) \/ post_reset(b) \/ post_reboot(b)
                                    \/ \E form \in Forms : post_config(b, form)
              \/ logout \/ nvs_write_key
resets     == very_long_press \/ factory_reset \/ factory_restart \/ esp_restart \/ hang

Next == \/ PowerOn \/ PowerLoss \/ wps_events \/ main_task \/ requested \/ resets
        \/ reboot_thread \/ watchdog

Spec == Init /\ [][Next]_vars

\* The threads are scheduled; nothing else is promised.
FairSpec == Spec /\ WF_vars(reboot_thread) /\ WF_vars(watchdog)

-------------------------------------------------------------------------------
(* Properties                                                              *)

\* While the server is idle and no factory reset under way, the configuration
\* in memory is the one the next boot will load, with what is empty made
\* default, unless a writing of NVS has failed: after saves cut short, saves
\* after failures, resets and WPS.
SettingsSurvive ==
  httpd.at = "idle" /\ button = "up" /\ hist.same =>
    load_config = [k \in Key |-> IF config[k] = Empty THEN Default[k] ELSE config[k]]

\* What WPS stores is what the router gave in this boot, name and password.
CredsOfRouter ==
  main.at \in {"wps_ssid", "wps_psk"} =>
    hist.router # None /\ \A k \in DOMAIN hist.router : main.config[k] = hist.router[k]

\* However often the power goes in the middle of it, the boot log has the last
\* boots, newest first, each once; the count is never behind it.
LogNewestFirst ==
  /\ Len(boot.log) <= MAX_ENTRIES
  /\ hist.log =>
       /\ \A i \in 1 .. Len(boot.log) - 1 : boot.log[i] > boot.log[i + 1]
       /\ \A i \in DOMAIN boot.log : boot.log[i] <= boot.count

\* The next boot will load what c has for key k.
Stored(c, k) == load_config[k] = IF c[k] = Empty THEN Default[k] ELSE c[k]

\* The keys that main has loaded and WPS has not given it, or that it stored.
StoredByMain ==
  CASE main.at \in {"wifi", "wps", "serve"} -> Key
    [] main.at = "wps_ssid" -> Key \ WifiKeys
    [] main.at = "wps_psk" -> Key \ {"wifi_psk"}
    [] OTHER -> {}

\* What is never saved has the value of cfg.toml; a save has written the keys
\* before those that it has left.
StoredInv ==
  /\ \A k \in Key \ Range(Keys) : config[k] = Default[k] /\ main.config[k] = Default[k]
  /\ httpd.at = "off" \/ main.at \in {"logger", "up"}
  /\ httpd.at = "save" => httpd.left # <<>>
  /\ button = "up" /\ httpd.at = "save" /\ httpd.ok =>
       \A k \in Range(Keys) \ Range(httpd.left) : Stored(config, k)
  /\ button = "up" /\ httpd.at = "idle" /\ hist.same => \A k \in Key : Stored(config, k)
  /\ button = "up" /\ hist.same => \A k \in StoredByMain : Stored(main.config, k)

\* What WPS has so far comes from the router of this boot.
WpsInv ==
  /\ wps.success => hist.router # None /\ (wps.got_creds \/ wps.sta = hist.router)
  /\ wps.got_creds => hist.router # None /\ wps.buf = hist.router

\* The count of the boot goes up before its entry is written.
LogInv ==
  /\ boot.count <= main.boots
  /\ main.at = "count" => boot.count < main.boots
  /\ main.at = "log" =>
       /\ main.count \in 1 .. MaxBoots
       /\ hist.log => main.count = boot.count
                      /\ \A i \in DOMAIN boot.log : boot.log[i] < boot.count

\* With these the properties above are inductive.
SettingsInv == TypeOK /\ StoredInv /\ WpsInv /\ CredsOfRouter /\ LogInv /\ LogNewestFirst

\* A reboot whose thread runs resets the chip, even if esp_restart hangs.
RebootHappens == reboot # "none" ~> main.at = "off"
===============================================================================
