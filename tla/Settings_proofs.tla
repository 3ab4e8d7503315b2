---------------------------- MODULE Settings_proofs ----------------------------
(* Theorems about Settings for any keys, forms, routers and number of boots. *)
EXTENDS Settings, SequenceTheorems, TLAPS

-------------------------------------------------------------------------------
(* Keys and values.                                                        *)

LEMMA Valued ==
  /\ Empty \in Value
  /\ \A k \in Key : Default[k] \in Value
  /\ \A form \in Forms : \A k \in DOMAIN form : form[k] \in Value
  /\ \A r \in Router : \A k \in DOMAIN r : r[k] \in Value
<1>1. Empty \in Value
  BY DEF Value
<1>2. \A k \in Key : Default[k] \in Value
  BY SettingsAssumption DEF SettingsAssumption
<1>3. ASSUME NEW f \in Forms \cup Router, NEW k \in DOMAIN f
      PROVE  f[k] \in Value
  <2>1. f[k] \in Range(f)
    BY DEF Range
  <2> QED BY <2>1 DEF Value
<1> QED BY <1>1, <1>2, <1>3

LEMMA Keyed ==
  /\ Range(Keys) \subseteq Key
  /\ "wifi_ssid" \in Range(Keys) /\ "wifi_psk" \in Range(Keys)
  /\ "wifi_ssid" \in Key /\ "wifi_psk" \in Key
  /\ Keys \in Seq(Range(Keys)) /\ Keys # <<>>
<1>1. "wifi_ssid" \in Range(Keys) /\ "wifi_psk" \in Range(Keys) /\ Keys \in Seq(Range(Keys))
  BY SettingsAssumption DEF SettingsAssumption, WifiKeys
<1>2. Keys # <<>>
  <2> SUFFICES ASSUME Keys = <<>> PROVE FALSE
    OBVIOUS
  <2>1. PICK i \in DOMAIN Keys : Keys[i] = "wifi_ssid"
    BY <1>1 DEF Range
  <2> QED BY <2>1
<1> QED BY <1>1, <1>2 DEF Key

LEMMA NvsValued ==
  ASSUME TypeOK
  PROVE  \A k \in DOMAIN nvs : nvs[k] \in Value /\ k \in Range(Keys) /\ k \in Key
BY Keyed DEF TypeOK, Range

\* What the next boot loads is there for every key.
LEMMA Loads ==
  ASSUME TypeOK
  PROVE  /\ load_config \in [Key -> Value]
         /\ \A k \in Key \ Range(Keys) : load_config[k] = Default[k]
BY NvsValued, Valued DEF TypeOK, load_config

\* A written key is loaded with its value, the other keys as before.
LEMMA SetStrOf ==
  ASSUME TypeOK, NEW key \in Range(Keys), NEW value \in Value, NEW ok \in BOOLEAN,
         SetStr(key, value, ok)
  PROVE  /\ DOMAIN nvs' \subseteq Range(Keys) /\ Range(nvs') \subseteq Value
         /\ \A k \in Key : k # key => (load_config[k])' = load_config[k]
         /\ ok => (load_config[key])' = IF value = Empty THEN Default[key] ELSE value
<1>1. CASE ok
  <2>1. nvs' = [k \in DOMAIN nvs \cup {key} |-> IF k = key THEN value ELSE nvs[k]]
    BY <1>1 DEF SetStr
  <2>2. DOMAIN nvs' = DOMAIN nvs \cup {key}
        /\ nvs'[key] = value
        /\ \A k \in DOMAIN nvs : k # key => nvs'[k] = nvs[k]
    BY <2>1
  <2>3. DOMAIN nvs' \subseteq Range(Keys)
    BY <2>2 DEF TypeOK
  <2>4. Range(nvs') \subseteq Value
    BY <2>2, NvsValued DEF Range
  <2>5. \A k \in Key : k # key => (load_config[k])' = load_config[k]
    BY <2>2 DEF load_config
  <2>6. (load_config[key])' = IF value = Empty THEN Default[key] ELSE value
    BY <2>2, Keyed DEF load_config
  <2> QED BY <2>3, <2>4, <2>5, <2>6
<1>2. CASE ~ok
  <2>1. nvs' = nvs
    BY <1>2 DEF SetStr
  <2> QED BY <1>2, <2>1 DEF TypeOK, load_config
<1> QED BY <1>1, <1>2

LEMMA EraseOf ==
  ASSUME TypeOK, NEW ok \in BOOLEAN, nvs_erase_namespace(ok)
  PROVE  /\ DOMAIN nvs' \subseteq Range(Keys) /\ Range(nvs') \subseteq Value
         /\ ok => \A k \in Key : (load_config[k])' = Default[k]
<1>1. CASE ok
  <2>1. nvs' = [k \in {} |-> Empty]
    BY <1>1 DEF nvs_erase_namespace
  <2> QED BY <2>1 DEF Range, load_config
<1>2. CASE ~ok
  <2>1. PICK kept \in SUBSET DOMAIN nvs : nvs' = Restrict(nvs, kept)
    BY <1>2 DEF nvs_erase_namespace
  <2>2. DOMAIN nvs' = kept /\ \A k \in kept : nvs'[k] = nvs[k]
    BY <2>1 DEF Restrict
  <2>3. DOMAIN nvs' \subseteq Range(Keys)
    BY <2>2 DEF TypeOK
  <2>4. Range(nvs') \subseteq Value
    BY <2>2, NvsValued DEF Range
  <2> QED BY <1>2, <2>3, <2>4
<1> QED BY <1>1, <1>2

\* The entries of the boot log after one more.
LEMMA PrependOf ==
  ASSUME NEW S, NEW s \in Seq(S), NEW n \in S
  PROVE  LET t == prepend_entry(n, s)
         IN  /\ t \in Seq(S)
             /\ Len(t) \in 1 .. MAX_ENTRIES /\ Len(t) <= Len(s) + 1
             /\ t[1] = n
             /\ \A i \in 2 .. Len(t) : t[i] = s[i - 1]
<1> DEFINE all == <<n>> \o s
           m == Min({MAX_ENTRIES, Len(s) + 1})
<1>1. MAX_ENTRIES \in Nat \ {0} /\ Len(s) \in Nat
  BY SettingsAssumption DEF SettingsAssumption
<1>2. m \in 1 .. MAX_ENTRIES /\ m <= Len(s) + 1
  <2>1. \E x \in {MAX_ENTRIES, Len(s) + 1} : \A y \in {MAX_ENTRIES, Len(s) + 1} : x =< y
    BY <1>1
  <2>2. m \in {MAX_ENTRIES, Len(s) + 1} /\ \A y \in {MAX_ENTRIES, Len(s) + 1} : m =< y
    BY <2>1 DEF Min
  <2> QED BY <1>1, <2>2
<1>3. /\ all \in Seq(S) /\ Len(all) = Len(s) + 1
      /\ all[1] = n /\ \A i \in 2 .. Len(s) + 1 : all[i] = s[i - 1]
  <2>1. <<n>> \in Seq(S) /\ Len(<<n>>) = 1 /\ <<n>>[1] = n
    OBVIOUS
  <2>2. /\ all \in Seq(S) /\ Len(all) = 1 + Len(s)
        /\ \A i \in 1 .. Len(<<n>>) + Len(s) :
             all[i] = IF i <= Len(<<n>>) THEN <<n>>[i] ELSE s[i - Len(<<n>>)]
    BY <2>1, ConcatProperties
  <2> QED BY <2>1, <2>2, <1>1
<1> HIDE DEF all, m
<1>4. \A i \in 1 .. m : all[i] \in S
  BY <1>1, <1>2, <1>3, ElementOfSeq
<1>5. /\ SubSeq(all, 1, m) \in Seq(S)
      /\ Len(SubSeq(all, 1, m)) = m
      /\ \A i \in 1 .. m : SubSeq(all, 1, m)[i] = all[i]
  <2>1. 1 \in 1 .. Len(all) + 1 /\ m \in 0 .. Len(all) /\ 1 \in Int /\ m \in Int
    BY <1>1, <1>2, <1>3
  <2>2. /\ SubSeq(all, 1, m) \in Seq(S)
        /\ Len(SubSeq(all, 1, m)) = (IF 1 <= m THEN m - 1 + 1 ELSE 0)
        /\ \A i \in 1 .. m - 1 + 1 : SubSeq(all, 1, m)[i] = all[1 + i - 1]
    BY <2>1, <1>3, SubSeqProperties
  <2> QED BY <2>2, <1>2, <1>1
<1>6. prepend_entry(n, s) = SubSeq(all, 1, m)
  BY DEF prepend_entry, all, m
<1> QED BY <1>1, <1>2, <1>3, <1>5, <1>6
-------------------------------------------------------------------------------
(* The boot log.                                                           *)

\* All but three actions leave the boot log, the count of boots and what the
\* main task has read of it.
LEMMA LogQuiet ==
  ASSUME TypeOK, Next, ~PowerOn, ~record_count, ~record_log
  PROVE  /\ boot' = boot /\ hist'.log = hist.log
         /\ main'.boots = main.boots
         /\ \/ main' = main
            \/ main'.at \notin {"count", "log"} /\ main'.count \in {main.count, 0}
<1> USE DEF TypeOK, MainTask, Hist, flash, booting, web, ending
<1>1. CASE PowerLoss \/ esp_restart \/ watchdog
  BY <1>1 DEF PowerLoss, esp_restart, watchdog, Off
<1>2. CASE wps_events
  BY <1>2 DEF wps_events, wps_event_creds, wps_event_config, wps_event_success,
              wps_event_failed
<1>3. CASE load \/ wifi \/ wps_poll \/ start_http_server \/ init_logger
  <2>1. boot' = boot /\ hist' = hist
    BY <1>3 DEF load, wifi, wps_poll, start_http_server, init_logger
  <2>2. main'.boots = main.boots /\ main'.at \notin {"count", "log"} /\ main'.count = main.count
    <3>1. CASE load \/ start_http_server \/ init_logger
      BY <3>1 DEF load, start_http_server, init_logger
    <3>2. CASE wifi
      BY <3>2 DEF wifi
    <3>3. CASE wps_poll
      <4>1. \/ main' = [main EXCEPT !.at = "serve"]
            \/ \E c : main' = [main EXCEPT !.at = "wps_ssid", !.config = c]
        BY <3>3 DEF wps_poll
      <4> QED BY <4>1
    <3> QED BY <1>3, <3>1, <3>2, <3>3
  <2> QED BY <2>1, <2>2
<1>4. CASE wps_write("wps_ssid", "wifi_ssid", "wps_psk")
  BY <1>4 DEF wps_write
<1>5. CASE wps_write("wps_psk", "wifi_psk", "serve")
  BY <1>5 DEF wps_write
<1>6. ASSUME NEW b \in Browser,
             login(b) \/ post_reset(b) \/ post_reboot(b) \/ \E form \in Forms : post_config(b, form)
      PROVE  boot' = boot /\ hist'.log = hist.log /\ main' = main
  BY <1>6 DEF login, post_reset, post_reboot, post_config
<1>7. CASE logout \/ nvs_write_key
  BY <1>7 DEF logout, nvs_write_key
<1>8. CASE very_long_press \/ factory_reset \/ factory_restart \/ hang \/ reboot_thread
  BY <1>8 DEF very_long_press, factory_reset, factory_restart, hang, reboot_thread
<1>9. requested => \/ logout \/ nvs_write_key
                   \/ \E b \in Browser : login(b) \/ post_reset(b) \/ post_reboot(b)
                                           \/ \E form \in Forms : post_config(b, form)
  BY DEF requested
<1> QED BY <1>1, <1>2, <1>3, <1>4, <1>5, <1>6, <1>7, <1>8, <1>9 DEF Next, main_task, resets

LEMMA LogKept ==
  ASSUME TypeOK, LogInv, LogNewestFirst, [Next]_vars
  PROVE  LogInv' /\ LogNewestFirst'
<1>0. /\ boot.count \in Nat /\ main.boots \in 0 .. MaxBoots /\ main.count \in 0 .. MaxBoots
      /\ boot.log \in Seq(1 .. MaxBoots) /\ Len(boot.log) \in Nat
      /\ DOMAIN boot.log = 1 .. Len(boot.log)
      /\ \A i \in DOMAIN boot.log : boot.log[i] \in 1 .. MaxBoots
      /\ MAX_ENTRIES \in Nat \ {0} /\ MaxBoots \in Nat
  BY SettingsAssumption, ElementOfSeq, LenProperties DEF TypeOK, MainTask, SettingsAssumption
<1>1. CASE PowerOn
  BY <1>1, <1>0 DEF PowerOn, flash, LogInv, LogNewestFirst, TypeOK, MainTask
<1>2. CASE record_count
  <2>1. CASE main' = [main EXCEPT !.at = "load"] /\ UNCHANGED <<boot, hist>>
    <3>1. main'.at = "load" /\ main'.boots = main.boots /\ boot' = boot /\ hist' = hist
      BY <2>1 DEF TypeOK, MainTask
    <3> QED BY <3>1 DEF LogInv, LogNewestFirst
  <2>2. ASSUME NEW ok \in BOOLEAN,
               boot' = [boot EXCEPT !.count = IF ok THEN @ + 1 ELSE @],
               hist' = [hist EXCEPT !.log = @ /\ ok],
               main' = [main EXCEPT !.at = "log", !.count = boot.count + 1]
        PROVE  LogInv' /\ LogNewestFirst'
    <3>1. /\ main'.at = "log" /\ main'.count = boot.count + 1 /\ main'.boots = main.boots
          /\ hist'.log <=> (hist.log /\ ok)
      BY <2>2 DEF TypeOK, MainTask, Hist
    <3>2. boot'.log = boot.log /\ boot'.count = (IF ok THEN boot.count + 1 ELSE boot.count)
      BY <2>2 DEF TypeOK
    <3>3. boot.count < main.boots
      BY <1>2 DEF record_count, LogInv
    <3>4. LogNewestFirst'
      <4>1. Len(boot'.log) <= MAX_ENTRIES
        BY <3>2 DEF LogNewestFirst
      <4>2. ASSUME hist'.log
            PROVE  /\ \A i \in 1 .. Len(boot'.log) - 1 : boot'.log[i] > boot'.log[i + 1]
                   /\ \A i \in DOMAIN boot'.log : boot'.log[i] <= boot'.count
        BY <4>2, <3>1, <3>2, <1>0 DEF LogNewestFirst
      <4> QED BY <4>1, <4>2 DEF LogNewestFirst
    <3>5. LogInv'
      <4>1. boot'.count <= main'.boots /\ main'.count \in 1 .. MaxBoots
        BY <3>1, <3>2, <3>3, <1>0
      <4>2. ASSUME hist'.log
            PROVE  /\ main'.count = boot'.count
                   /\ \A i \in DOMAIN boot'.log : boot'.log[i] < boot'.count
        BY <4>2, <3>1, <3>2, <1>0 DEF LogNewestFirst
      <4> QED BY <4>1, <4>2, <3>1 DEF LogInv
    <3> QED BY <3>4, <3>5
  <2> QED BY <1>2, <2>1, <2>2 DEF record_count
<1>3. CASE record_log
  <2>1. PICK ok \in BOOLEAN :
          boot' = [boot EXCEPT !.log = IF ok THEN prepend_entry(main.count, @) ELSE @]
    BY <1>3 DEF record_log
  <2>2. /\ main.at = "log" /\ main'.at = "load" /\ main'.boots = main.boots
        /\ hist' = hist
    BY <1>3 DEF record_log, TypeOK, MainTask
  <2>3. boot'.count = boot.count
        /\ boot'.log = (IF ok THEN prepend_entry(main.count, boot.log) ELSE boot.log)
    BY <2>1 DEF TypeOK
  <2>4. LogInv'
    BY <2>2, <2>3 DEF LogInv
  <2>5. CASE ~ok
    <3>1. boot'.log = boot.log
      BY <2>3, <2>5
    <3>2. LogNewestFirst'
      BY <3>1, <2>2, <2>3 DEF LogNewestFirst
    <3> QED BY <2>4, <3>2
  <2>6. CASE ok
    <3> DEFINE t == prepend_entry(main.count, boot.log)
    <3>1. main.count \in 1 .. MaxBoots
      BY <2>2 DEF LogInv
    <3>2. /\ t \in Seq(1 .. MaxBoots)
          /\ Len(t) \in 1 .. MAX_ENTRIES /\ Len(t) <= Len(boot.log) + 1
          /\ t[1] = main.count
          /\ \A i \in 2 .. Len(t) : t[i] = boot.log[i - 1]
      <4> DEFINE B == 1 .. MaxBoots
                 n == main.count
                 s == boot.log
      <4>1. n \in B /\ s \in Seq(B)
        BY <3>1, <1>0
      <4> HIDE DEF B, n, s
      <4>2. /\ prepend_entry(n, s) \in Seq(B)
            /\ Len(prepend_entry(n, s)) \in 1 .. MAX_ENTRIES
            /\ Len(prepend_entry(n, s)) <= Len(s) + 1
            /\ prepend_entry(n, s)[1] = n
            /\ \A i \in 2 .. Len(prepend_entry(n, s)) : prepend_entry(n, s)[i] = s[i - 1]
        BY <4>1, PrependOf
      <4> QED BY <4>2 DEF B, n, s
    <3>3. boot'.log = t
      BY <2>3, <2>6
    <3> HIDE DEF t
    <3>4. ASSUME hist.log
          PROVE  /\ \A i \in 1 .. Len(t) - 1 : t[i] > t[i + 1]
                 /\ \A i \in DOMAIN t : t[i] <= boot.count
      <4>1. main.count = boot.count /\ \A i \in DOMAIN boot.log : boot.log[i] < boot.count
        BY <3>4, <2>2 DEF LogInv
      <4>2. \A i \in 1 .. Len(boot.log) - 1 : boot.log[i] > boot.log[i + 1]
        BY <3>4 DEF LogNewestFirst
      <4>3. ASSUME NEW i \in 1 .. Len(t) - 1
            PROVE  t[i] > t[i + 1]
        <5>1. i + 1 \in 2 .. Len(t) /\ t[i + 1] = boot.log[i]
          BY <3>2, <1>0
        <5>2. i \in DOMAIN boot.log
          BY <3>2, <1>0
        <5>3. CASE i = 1
          BY <5>1, <5>2, <5>3, <4>1, <3>2, <1>0
        <5>4. CASE i # 1
          <6>1. i \in 2 .. Len(t) /\ t[i] = boot.log[i - 1] /\ i - 1 \in 1 .. Len(boot.log) - 1
            BY <5>4, <3>2, <1>0, SMTT(30)
          <6>2. boot.log[i - 1] > boot.log[(i - 1) + 1] /\ (i - 1) + 1 = i
            BY <6>1, <4>2
          <6> QED BY <5>1, <6>1, <6>2
        <5> QED BY <5>3, <5>4
      <4>4. ASSUME NEW i \in DOMAIN t
            PROVE  t[i] <= boot.count
        <5>1. i \in 1 .. Len(t)
          BY <3>2, LenProperties
        <5>2. CASE i = 1
          BY <5>2, <4>1, <3>2, <1>0
        <5>3. CASE i # 1
          <6>1. i \in 2 .. Len(t) /\ i - 1 \in 1 .. Len(boot.log)
            <7>1. i \in 2 .. Len(t)
              BY <5>1, <5>3
            <7>2. Len(t) <= Len(boot.log) + 1 /\ Len(t) \in Nat /\ Len(boot.log) \in Nat
              BY <3>2, <1>0
            <7> QED BY <7>1, <7>2
          <6>2. t[i] = boot.log[i - 1]
            BY <6>1, <3>2
          <6>3. i - 1 \in DOMAIN boot.log
            BY <6>1, <1>0
          <6>4. boot.log[i - 1] < boot.count /\ boot.log[i - 1] \in Nat
            BY <6>3, <4>1, <1>0
          <6> QED BY <6>2, <6>4, <1>0
        <5> QED BY <5>1, <5>2, <5>3
      <4> QED BY <4>3, <4>4
    <3>5. Len(t) <= MAX_ENTRIES
      BY <3>2, <1>0
    <3> QED BY <3>3, <3>4, <3>5, <2>2, <2>3, <2>4 DEF LogNewestFirst
  <2> QED BY <2>4, <2>5, <2>6
<1>4. CASE Next /\ ~PowerOn /\ ~record_count /\ ~record_log
  <2>1. /\ boot' = boot /\ hist'.log = hist.log
        /\ main'.boots = main.boots
        /\ main' = main \/ main'.at \notin {"count", "log"}
    BY <1>4, LogQuiet
  <2>2. LogNewestFirst'
    BY <2>1 DEF LogNewestFirst
  <2>3. LogInv'
    BY <2>1 DEF LogInv
  <2> QED BY <2>2, <2>3
<1>5. CASE UNCHANGED vars
  BY <1>5 DEF vars, flash, booting, LogInv, LogNewestFirst
<1> QED BY <1>1, <1>2, <1>3, <1>4, <1>5
-------------------------------------------------------------------------------
(* Types.                                                                  *)

LEMMA TypeKept ==
  ASSUME TypeOK, StoredInv, LogInv, [Next]_vars
  PROVE  TypeOK'
<1>0. /\ MaxBoots \in Nat /\ 0 \in 0 .. MaxBoots /\ MaxRequests \in Nat
      /\ Default \in [Key -> Value]
  BY SettingsAssumption DEF SettingsAssumption
<1>1. CASE PowerLoss \/ esp_restart \/ watchdog
  <2>1. Off
    BY <1>1 DEF PowerLoss, esp_restart, watchdog
  <2>2. main' \in MainTask
    BY <2>1, <1>0 DEF Off, TypeOK, MainTask
  <2>3. wps' \in Wps /\ hist' \in Hist
    BY <2>1 DEF Off, TypeOK, NoWps, Wps, Hist
  <2>4. httpd' \in Httpd /\ restart' \in [at : {"none", "called", "hung"}, wdt : BOOLEAN]
    BY <2>1 DEF Off, NoHttpd, Httpd, Running
  <2> QED BY <2>1, <2>2, <2>3, <2>4, <1>0 DEF Off, TypeOK, flash
<1>2. CASE PowerOn
  <2>0. main.boots + 1 \in 0 .. MaxBoots
    BY <1>2, <1>0 DEF PowerOn, TypeOK, MainTask
  <2>1. main' \in MainTask
    BY <1>2, <2>0 DEF PowerOn, TypeOK, MainTask
  <2> QED BY <1>2, <2>1 DEF PowerOn, TypeOK, flash, web, ending
<1>3. CASE wps_events
  <2>1. wps' \in Wps /\ hist' \in Hist
    BY <1>3, ZenonT(30) DEF wps_events, wps_event_creds, wps_event_config, wps_event_success,
                wps_event_failed, TypeOK, Wps, Hist
  <2>2. UNCHANGED <<flash, main, web, ending>>
    BY <1>3 DEF wps_events, wps_event_creds, wps_event_config, wps_event_success,
                wps_event_failed
  <2> QED BY <2>1, <2>2 DEF TypeOK, flash, web, ending
<1>4. CASE record_count
  <2>1. boot.count < main.boots /\ boot.count + 1 \in 0 .. MaxBoots
    BY <1>4, <1>0 DEF record_count, LogInv, TypeOK, MainTask
  <2>2. boot' \in [count : 0 .. MaxBoots, log : Seq(1 .. MaxBoots)]
    BY <1>4, <2>1 DEF record_count, TypeOK
  <2>3. main' \in MainTask
    BY <1>4, <2>1 DEF record_count, TypeOK, MainTask
  <2>4. hist' \in Hist
    BY <1>4 DEF record_count, TypeOK, Hist
  <2>5. UNCHANGED <<nvs, wps, web, ending>>
    BY <1>4 DEF record_count
  <2> QED BY <2>2, <2>3, <2>4, <2>5 DEF TypeOK, web, ending
<1>5. CASE record_log
  <2>1. PICK ok \in BOOLEAN :
          boot' = [boot EXCEPT !.log = IF ok THEN prepend_entry(main.count, @) ELSE @]
    BY <1>5 DEF record_log
  <2>2. main.count \in 1 .. MaxBoots /\ boot.log \in Seq(1 .. MaxBoots)
    BY <1>5 DEF record_log, LogInv, TypeOK
  <2>3. prepend_entry(main.count, boot.log) \in Seq(1 .. MaxBoots)
    <3> DEFINE B == 1 .. MaxBoots
               n == main.count
               s == boot.log
    <3>1. n \in B /\ s \in Seq(B)
      BY <2>2
    <3> HIDE DEF B, n, s
    <3>2. prepend_entry(n, s) \in Seq(B)
      BY <3>1, PrependOf
    <3> QED BY <3>2 DEF B, n, s
  <2>4. boot' \in [count : 0 .. MaxBoots, log : Seq(1 .. MaxBoots)]
    <3>1. boot'.count = boot.count
          /\ boot'.log = (IF ok THEN prepend_entry(main.count, boot.log) ELSE boot.log)
      BY <2>1 DEF TypeOK
    <3>2. boot'.count \in 0 .. MaxBoots /\ boot'.log \in Seq(1 .. MaxBoots)
      BY <3>1, <2>2, <2>3 DEF TypeOK
    <3>3. boot' = [count |-> boot'.count, log |-> boot'.log]
      BY <2>1 DEF TypeOK
    <3> QED BY <3>2, <3>3
  <2>5. main' = [main EXCEPT !.at = "load", !.count = 0]
        /\ UNCHANGED <<nvs, wps, web, ending, hist>>
    BY <1>5 DEF record_log
  <2>6. main' \in MainTask
    BY <2>5, <1>0 DEF TypeOK, MainTask
  <2> QED BY <2>4, <2>5, <2>6 DEF TypeOK, web, ending
<1>6. CASE load \/ wifi \/ init_logger \/ start_http_server
  <2>1. main' \in MainTask /\ main'.config \in [Key -> Value]
    BY <1>6, Loads DEF load, wifi, init_logger, start_http_server, TypeOK, MainTask
  <2>2. httpd' \in Httpd /\ config' \in [Key -> Value]
    BY <1>6 DEF load, wifi, init_logger, start_http_server, TypeOK, MainTask, Httpd, web
  <2>3. UNCHANGED <<flash, wps, session, requests, ending, hist>>
    BY <1>6 DEF load, wifi, init_logger, start_http_server, web
  <2> QED BY <2>1, <2>2, <2>3 DEF TypeOK, flash, ending
<1>7. CASE wps_poll
  <2> DEFINE got == IF wps.got_creds THEN wps.buf ELSE wps.sta
             c == [k \in Key |-> IF got = None \/ k \notin DOMAIN got THEN main.config[k] ELSE got[k]]
  <2>1. got \in Router \cup {None} /\ main.config \in [Key -> Value]
    BY DEF TypeOK, Wps, MainTask
  <2>2. c \in [Key -> Value]
    <3>1. ASSUME NEW k \in Key
          PROVE  (IF got = None \/ k \notin DOMAIN got THEN main.config[k] ELSE got[k]) \in Value
      <4> HIDE DEF got
      <4> QED BY <2>1, Valued
    <3> QED BY <3>1
  <2>3. \/ main' = [main EXCEPT !.at = "serve"]
        \/ main' = [main EXCEPT !.at = "wps_ssid", !.config = c]
    BY <1>7 DEF wps_poll
  <2> HIDE DEF c
  <2>4. wps' = NoWps /\ UNCHANGED <<flash, web, ending, hist>>
    BY <1>7 DEF wps_poll
  <2>5. main' \in MainTask
    BY <2>2, <2>3 DEF TypeOK, MainTask
  <2>6. wps' \in Wps
    BY <2>4 DEF NoWps, Wps
  <2> QED BY <2>4, <2>5, <2>6 DEF TypeOK, flash, web, ending
<1>8. ASSUME NEW at \in {"wps_ssid", "wps_psk"}, NEW key \in WifiKeys, NEW next \in {"wps_psk", "serve"},
             wps_write(at, key, next)
      PROVE  TypeOK'
  <2>1. PICK ok \in BOOLEAN : /\ SetStr(key, main.config[key], ok)
                              /\ hist' = [hist EXCEPT !.same = @ /\ ok]
    BY <1>8 DEF wps_write
  <2>2. key \in Range(Keys) /\ key \in Key /\ main.config[key] \in Value
    BY Keyed DEF WifiKeys, TypeOK, MainTask
  <2>3. DOMAIN nvs' \subseteq Range(Keys) /\ Range(nvs') \subseteq Value
    BY <2>1, <2>2, SetStrOf
  <2>4. hist' \in Hist
    BY <2>1 DEF TypeOK, Hist
  <2>5. main' = [main EXCEPT !.at = next] /\ UNCHANGED <<boot, wps, web, ending>>
    BY <1>8 DEF wps_write
  <2>6. main' \in MainTask
    BY <2>5 DEF TypeOK, MainTask
  <2> QED BY <2>3, <2>4, <2>5, <2>6 DEF TypeOK, web, ending
<1>9. ASSUME NEW b \in Browser, login(b) \/ post_reboot(b)
      PROVE  TypeOK'
  <2>1. CASE login(b)
    BY <2>1 DEF login, TypeOK, flash, booting, ending
  <2>2. CASE post_reboot(b)
    <3>1. requests' \in 0 .. MaxRequests
      BY <2>2, <1>0 DEF post_reboot, is_auth, TypeOK
    <3>2. httpd' \in Httpd
      BY <2>2 DEF post_reboot, TypeOK, Httpd
    <3>3. reboot' \in {"none", "sleep", "done"} /\ button' \in {"up", "reset", "erased"}
          /\ restart' \in [at : {"none", "called", "hung"}, wdt : BOOLEAN]
      BY <2>2 DEF post_reboot, TypeOK, ending
    <3>4. session' = None /\ UNCHANGED <<flash, booting, config, hist>>
      BY <2>2 DEF post_reboot
    <3> QED BY <3>1, <3>2, <3>3, <3>4 DEF TypeOK, flash, booting
  <2> QED BY <1>9, <2>1, <2>2
<1>10. ASSUME NEW b \in Browser, post_reset(b)
       PROVE  TypeOK'
  <2>1. PICK ok \in BOOLEAN : nvs_erase_namespace(ok) /\ hist' = [hist EXCEPT !.same = ok]
    BY <1>10 DEF post_reset
  <2>2. DOMAIN nvs' \subseteq Range(Keys) /\ Range(nvs') \subseteq Value
    BY <2>1, EraseOf
  <2>3. requests' \in 0 .. MaxRequests
    BY <1>10, <1>0 DEF post_reset, is_auth, TypeOK
  <2>4. hist' \in Hist
    BY <2>1 DEF TypeOK, Hist
  <2>5. config' = Default /\ UNCHANGED <<boot, booting, session, httpd, ending>>
    BY <1>10 DEF post_reset
  <2> QED BY <1>0, <2>2, <2>3, <2>4, <2>5 DEF TypeOK, booting, ending
<1>11. ASSUME NEW b \in Browser, NEW form \in Forms, post_config(b, form)
       PROVE  TypeOK'
  <2>1. config' \in [Key -> Value]
    <3>1. config' = [k \in Key |-> IF k \in DOMAIN form THEN form[k] ELSE config[k]]
      BY <1>11 DEF post_config
    <3>2. \A k \in Key : (IF k \in DOMAIN form THEN form[k] ELSE config[k]) \in Value
      BY Valued DEF TypeOK
    <3> QED BY <3>1, <3>2
  <2>2. requests' \in 0 .. MaxRequests
    BY <1>11, <1>0 DEF post_config, is_auth, TypeOK
  <2>3. httpd' \in {httpd, [at |-> "save", left |-> Keys, ok |-> TRUE]}
        /\ hist' \in {hist, [hist EXCEPT !.same = FALSE]}
        /\ UNCHANGED <<flash, booting, session, ending>>
    BY <1>11 DEF post_config
  <2>4. httpd' \in Httpd
    <3>1. [at |-> "save", left |-> Keys, ok |-> TRUE] \in Httpd
      BY Keyed DEF Httpd
    <3> QED BY <3>1, <2>3 DEF TypeOK
  <2>5. hist' \in Hist
    BY <2>3 DEF TypeOK, Hist
  <2> QED BY <2>1, <2>2, <2>3, <2>4, <2>5 DEF TypeOK, flash, booting, ending
<1>12. CASE nvs_write_key
  <2> DEFINE h == Head(httpd.left)
  <2>1. httpd.left \in Seq(Range(Keys)) /\ config \in [Key -> Value]
    BY DEF TypeOK, Httpd
  <2>2. PICK ok \in BOOLEAN :
          /\ SetStr(h, config[h], ok)
          /\ httpd' = IF Len(httpd.left) > 1
                        THEN [httpd EXCEPT !.left = Tail(@), !.ok = @ /\ ok]
                        ELSE [NoHttpd EXCEPT !.at = "idle"]
          /\ hist' = IF httpd'.at = "idle" THEN [hist EXCEPT !.same = httpd.ok /\ ok] ELSE hist
    BY <1>12 DEF nvs_write_key
  <2>3. httpd.left # <<>>
    BY <1>12 DEF nvs_write_key, StoredInv
  <2>4. h \in Range(Keys) /\ Tail(httpd.left) \in Seq(Range(Keys))
    BY <2>1, <2>3, HeadTailProperties
  <2>5. h \in Key /\ config[h] \in Value
    BY <2>1, <2>4, Keyed
  <2> HIDE DEF h
  <2>6. DOMAIN nvs' \subseteq Range(Keys) /\ Range(nvs') \subseteq Value
    BY <2>2, <2>4, <2>5, SetStrOf
  <2>7. httpd' \in Httpd
    <3>1. CASE Len(httpd.left) > 1
      <4>1. httpd' = [httpd EXCEPT !.left = Tail(httpd.left), !.ok = httpd.ok /\ ok]
        BY <3>1, <2>2
      <4>2. (httpd.ok /\ ok) \in BOOLEAN
        OBVIOUS
      <4> QED BY <4>1, <4>2, <2>4 DEF TypeOK, Httpd
    <3>2. CASE ~(Len(httpd.left) > 1)
      <4>1. httpd' = [NoHttpd EXCEPT !.at = "idle"]
        BY <3>2, <2>2
      <4>2. <<>> \in Seq(Range(Keys))
        OBVIOUS
      <4>3. httpd' = [at |-> "idle", left |-> <<>>, ok |-> TRUE]
        BY <4>1 DEF NoHttpd
      <4> QED BY <4>2, <4>3 DEF Httpd
    <3> QED BY <3>1, <3>2
  <2>8. hist' \in Hist
    BY <2>2 DEF TypeOK, Hist, Httpd
  <2>9. UNCHANGED <<boot, booting, config, session, live, requests, ending>>
    BY <1>12 DEF nvs_write_key
  <2> QED BY <2>6, <2>7, <2>8, <2>9 DEF TypeOK, booting, ending
<1>13. CASE logout
  BY <1>13 DEF logout, TypeOK, flash, booting, ending
<1>14. CASE very_long_press \/ factory_restart \/ hang \/ reboot_thread
  <2>1. restart' \in [at : {"none", "called", "hung"}, wdt : BOOLEAN]
        /\ button' \in {"up", "reset", "erased"} /\ reboot' \in {"none", "sleep", "done"}
    <3>1. CASE very_long_press
      BY <3>1 DEF very_long_press, TypeOK
    <3>2. CASE factory_restart
      BY <3>2 DEF factory_restart, TypeOK
    <3>3. CASE hang
      BY <3>3 DEF hang, TypeOK
    <3>4. CASE reboot_thread
      BY <3>4 DEF reboot_thread, TypeOK
    <3> QED BY <1>14, <3>1, <3>2, <3>3, <3>4
  <2>2. UNCHANGED <<flash, booting, web, hist>>
    BY <1>14 DEF very_long_press, factory_restart, hang, reboot_thread
  <2> QED BY <2>1, <2>2 DEF TypeOK, flash, booting, web
<1>15. CASE factory_reset
  <2>1. PICK ok \in BOOLEAN : nvs_erase_namespace(ok)
    BY <1>15 DEF factory_reset
  <2>2. DOMAIN nvs' \subseteq Range(Keys) /\ Range(nvs') \subseteq Value
    BY <2>1, EraseOf
  <2> QED BY <1>15, <2>2 DEF factory_reset, TypeOK, booting, web
<1>16. CASE UNCHANGED vars
  BY <1>16 DEF vars, flash, booting, web, ending, TypeOK
<1>17. requested => \/ logout \/ nvs_write_key
                    \/ \E b \in Browser : login(b) \/ post_reset(b) \/ post_reboot(b)
                                            \/ \E form \in Forms : post_config(b, form)
  BY DEF requested
<1>18. /\ wps_write("wps_ssid", "wifi_ssid", "wps_psk") => TypeOK'
       /\ wps_write("wps_psk", "wifi_psk", "serve") => TypeOK'
  <2>1. "wifi_ssid" \in WifiKeys /\ "wifi_psk" \in WifiKeys
    BY DEF WifiKeys
  <2> QED BY <2>1, <1>8
<1> QED
  BY <1>1, <1>2, <1>3, <1>4, <1>5, <1>6, <1>7, <1>9, <1>10, <1>11, <1>12, <1>13, <1>14,
     <1>15, <1>16, <1>17, <1>18 DEF Next, main_task, resets
-------------------------------------------------------------------------------
(* WPS.                                                                    *)

\* Nothing but WPS, and the end of a boot, changes what WPS has.
LEMMA WpsQuiet ==
  ASSUME TypeOK, Next, ~wps_events, ~wps_poll, ~Off
  PROVE  wps' = wps /\ hist'.router = hist.router
<1> USE DEF booting, TypeOK, Hist
<1>1. CASE PowerOn
  BY <1>1 DEF PowerOn
<1>2. ~PowerLoss /\ ~esp_restart /\ ~watchdog
  BY DEF PowerLoss, esp_restart, watchdog
<1>3. CASE record_count \/ record_log
  BY <1>3 DEF record_count, record_log
<1>4. CASE load \/ wifi \/ start_http_server \/ init_logger
  BY <1>4 DEF load, wifi, start_http_server, init_logger
<1>5. CASE wps_write("wps_ssid", "wifi_ssid", "wps_psk")
  BY <1>5 DEF wps_write
<1>6. CASE wps_write("wps_psk", "wifi_psk", "serve")
  BY <1>6 DEF wps_write
<1>7. ASSUME NEW b \in Browser,
             login(b) \/ post_reset(b) \/ post_reboot(b) \/ \E form \in Forms : post_config(b, form)
      PROVE  wps' = wps /\ hist'.router = hist.router
  BY <1>7 DEF login, post_reset, post_reboot, post_config
<1>8. CASE logout \/ nvs_write_key
  BY <1>8 DEF logout, nvs_write_key
<1>9. CASE very_long_press \/ factory_reset \/ factory_restart \/ hang \/ reboot_thread
  BY <1>9 DEF very_long_press, factory_reset, factory_restart, hang, reboot_thread
<1>10. requested => \/ logout \/ nvs_write_key
                    \/ \E b \in Browser : login(b) \/ post_reset(b) \/ post_reboot(b)
                                            \/ \E form \in Forms : post_config(b, form)
  BY DEF requested
<1> QED
  BY <1>1, <1>2, <1>3, <1>4, <1>5, <1>6, <1>7, <1>8, <1>9, <1>10 DEF Next, main_task, resets

\* Nor does anything but wps_poll bring main to the writing of credentials, or
\* change the configuration of main then.
LEMMA CredsQuiet ==
  ASSUME TypeOK, Next, ~wps_poll, ~Off, main'.at \in {"wps_ssid", "wps_psk"}
  PROVE  main.at \in {"wps_ssid", "wps_psk"} /\ main'.config = main.config /\ ~wps_events
<1> USE DEF TypeOK, MainTask, booting
<1>1. ~PowerOn
  BY DEF PowerOn
<1>2. ~PowerLoss /\ ~esp_restart /\ ~watchdog
  BY DEF PowerLoss, esp_restart, watchdog
<1>3. ~wps_events
  BY DEF wps_events, wps_event_creds, wps_event_config, wps_event_success, wps_event_failed
<1>4. ~record_count /\ ~record_log
  BY DEF record_count, record_log
<1>5. ~load /\ ~start_http_server /\ ~init_logger
  BY DEF load, start_http_server, init_logger
<1>6. ~wifi
  BY DEF wifi
<1>7. CASE wps_write("wps_ssid", "wifi_ssid", "wps_psk")
  BY <1>3, <1>7 DEF wps_write
<1>8. ~wps_write("wps_psk", "wifi_psk", "serve")
  BY DEF wps_write
<1>9. ASSUME NEW b \in Browser,
             login(b) \/ post_reset(b) \/ post_reboot(b) \/ \E form \in Forms : post_config(b, form)
      PROVE  main' = main
  BY <1>9 DEF login, post_reset, post_reboot, post_config
<1>10. logout \/ nvs_write_key => main' = main
  BY DEF logout, nvs_write_key
<1>11. very_long_press \/ factory_reset \/ factory_restart \/ hang \/ reboot_thread => main' = main
  BY DEF very_long_press, factory_reset, factory_restart, hang, reboot_thread
<1>12. requested => \/ logout \/ nvs_write_key
                    \/ \E b \in Browser : login(b) \/ post_reset(b) \/ post_reboot(b)
                                            \/ \E form \in Forms : post_config(b, form)
  BY DEF requested
<1> QED
  BY <1>1, <1>2, <1>3, <1>4, <1>5, <1>6, <1>7, <1>8, <1>9, <1>10, <1>11, <1>12
     DEF Next, main_task, resets

LEMMA WpsKept ==
  ASSUME TypeOK, WpsInv, CredsOfRouter, [Next]_vars
  PROVE  WpsInv' /\ CredsOfRouter'
<1>0. None \notin Router /\ \A r \in Router : DOMAIN r \subseteq Key
  BY Keyed, SettingsAssumption DEF SettingsAssumption, WifiKeys
<1>1. CASE Off
  <2>1. wps' = NoWps /\ main'.at = "off"
    BY <1>1 DEF Off, TypeOK, MainTask
  <2> QED BY <2>1 DEF WpsInv, CredsOfRouter, NoWps
<1>2. CASE wps_events
  <2>1. main' = main /\ main.at = "wps"
    BY <1>2 DEF wps_events, wps_event_creds, wps_event_config, wps_event_success,
                wps_event_failed, booting
  <2>2. ASSUME NEW r \in Router, wps_event_creds(r)
        PROVE  WpsInv'
    BY <2>2, <1>0 DEF wps_event_creds, WpsInv, TypeOK, Wps, Hist
  <2>3. ASSUME NEW r \in Router, wps_event_config(r)
        PROVE  WpsInv'
    BY <2>3, <1>0 DEF wps_event_config, WpsInv, TypeOK, Wps, Hist
  <2>4. CASE wps_event_success
    <3>1. /\ wps'.got_creds <=> wps.got_creds
          /\ wps'.buf = wps.buf /\ wps.got_creds /\ hist' = hist
      BY <2>4 DEF wps_event_success, TypeOK, Wps
    <3> QED BY <2>1, <3>1 DEF WpsInv, CredsOfRouter
  <2>5. CASE wps_event_failed
    <3>1. /\ wps'.got_creds <=> wps.got_creds
          /\ wps'.success <=> wps.success
          /\ wps'.buf = wps.buf /\ wps'.sta = wps.sta /\ hist' = hist
      BY <2>5 DEF wps_event_failed, TypeOK, Wps
    <3> QED BY <2>1, <3>1 DEF WpsInv, CredsOfRouter
  <2> QED BY <1>2, <2>1, <2>2, <2>3, <2>4, <2>5 DEF wps_events, CredsOfRouter
<1>3. CASE wps_poll
  <2> DEFINE got == IF wps.got_creds THEN wps.buf ELSE wps.sta
             c == [k \in Key |-> IF got = None \/ k \notin DOMAIN got THEN main.config[k] ELSE got[k]]
  <2>1. wps' = NoWps /\ hist' = hist
    BY <1>3 DEF wps_poll
  <2>2. \/ main' = [main EXCEPT !.at = "serve"]
        \/ wps.success /\ main' = [main EXCEPT !.at = "wps_ssid", !.config = c]
    BY <1>3 DEF wps_poll
  <2>3. wps.success => hist.router # None /\ got = hist.router
    BY DEF WpsInv, TypeOK, Wps
  <2>4. \A k \in Key : got # None /\ k \in DOMAIN got => c[k] = got[k]
    OBVIOUS
  <2>5. hist.router # None => hist.router \in Router
    BY DEF TypeOK, Hist
  <2> HIDE DEF c, got
  <2>6. CASE wps.success /\ main' = [main EXCEPT !.at = "wps_ssid", !.config = c]
    <3>1. main'.config = c
      BY <2>6 DEF TypeOK, MainTask
    <3> QED BY <2>1, <2>3, <2>4, <2>5, <2>6, <3>1, <1>0 DEF CredsOfRouter, WpsInv, NoWps
  <2>7. CASE main' = [main EXCEPT !.at = "serve"]
    <3>1. main'.at = "serve"
      BY <2>7 DEF TypeOK, MainTask
    <3> QED BY <2>1, <3>1 DEF CredsOfRouter, WpsInv, NoWps
  <2> QED BY <2>2, <2>6, <2>7
<1>4. CASE Next /\ ~wps_events /\ ~wps_poll /\ ~Off
  <2>1. wps' = wps /\ hist'.router = hist.router
    BY <1>4, WpsQuiet
  <2>2. WpsInv'
    BY <2>1 DEF WpsInv
  <2>3. main'.at \in {"wps_ssid", "wps_psk"} =>
          main.at \in {"wps_ssid", "wps_psk"} /\ main'.config = main.config
    BY <1>4, CredsQuiet
  <2>4. CredsOfRouter'
    BY <2>1, <2>3 DEF CredsOfRouter
  <2> QED BY <2>2, <2>4
<1>5. CASE UNCHANGED vars
  BY <1>5 DEF vars, booting, WpsInv, CredsOfRouter
<1> QED BY <1>1, <1>2, <1>3, <1>4, <1>5
-------------------------------------------------------------------------------
(* What is stored.                                                         *)

\* A step that writes nothing, and gives main no key it has not stored.
LEMMA StoredFrame ==
  ASSUME StoredInv,
         nvs' = nvs, config' = config, httpd' = httpd, button' = button,
         hist'.same <=> hist.same,
         httpd.at = "off" \/ main'.at \in {"logger", "up"},
         StoredByMain' \subseteq StoredByMain,
         \A k \in Key \ Range(Keys) : main'.config[k] = main.config[k],
         \A k \in StoredByMain' : main'.config[k] = main.config[k]
  PROVE  StoredInv'
<1>1. \A k : (load_config[k])' = load_config[k]
  BY DEF load_config
<1>2. \A k \in StoredByMain' : Stored(main.config, k) <=> Stored(main.config, k)'
  BY <1>1 DEF Stored
<1>3. /\ \A k \in Key \ Range(Keys) : config'[k] = Default[k] /\ main'.config[k] = Default[k]
      /\ httpd'.at = "off" \/ main'.at \in {"logger", "up"}
      /\ httpd'.at = "save" => httpd'.left # <<>>
  BY DEF StoredInv
<1>4. button' = "up" /\ httpd'.at = "save" /\ httpd'.ok =>
        \A k \in Range(Keys) \ Range(httpd'.left) : Stored(config, k)'
  BY <1>1 DEF StoredInv, Stored
<1>5. button' = "up" /\ httpd'.at = "idle" /\ hist'.same => \A k \in Key : Stored(config, k)'
  BY <1>1 DEF StoredInv, Stored
<1>6. button' = "up" /\ hist'.same => \A k \in StoredByMain' : Stored(main.config, k)'
  BY <1>1 DEF StoredInv, Stored
<1> QED BY <1>3, <1>4, <1>5, <1>6 DEF StoredInv

\* The memory is lost, and main has no key.
LEMMA StoredOff ==
  ASSUME TypeOK, Off
  PROVE  StoredInv'
<1>1. /\ main'.at = "off" /\ main'.config = Default /\ config' = Default
      /\ httpd'.at = "off"
  BY DEF Off, TypeOK, MainTask, NoHttpd
<1>2. StoredByMain' = {}
  BY <1>1 DEF StoredByMain
<1> QED BY <1>1, <1>2 DEF StoredInv

LEMMA StoredBoot ==
  ASSUME TypeOK, StoredInv,
         \/ PowerOn \/ record_count \/ record_log \/ load \/ wifi \/ wps_poll
         \/ start_http_server \/ init_logger
  PROVE  StoredInv'
<1>0. main.config \in [Key -> Value] /\ main \in MainTask
  BY DEF TypeOK, MainTask
<1>1. CASE PowerOn \/ record_count \/ record_log \/ wifi \/ init_logger
  <2>1. /\ main.at \in {"off", "count", "log", "wifi", "logger"}
        /\ UNCHANGED <<nvs, config, httpd, button>> /\ hist'.same = hist.same
    BY <1>1 DEF PowerOn, record_count, record_log, wifi, init_logger, TypeOK, Hist,
                flash, web, ending
  <2>2. main'.config = main.config
    BY <1>1, <1>0 DEF PowerOn, record_count, record_log, wifi, init_logger, MainTask
  <2>3. \/ main.at = "off" /\ main'.at = "count"
        \/ main.at = "count" /\ main'.at \in {"log", "load"}
        \/ main.at = "log" /\ main'.at = "load"
        \/ main.at = "wifi" /\ main'.at \in {"wps", "serve"}
        \/ main.at = "logger" /\ main'.at = "up"
    BY <1>1, <1>0 DEF PowerOn, record_count, record_log, wifi, init_logger, MainTask
  <2>4. StoredByMain' \subseteq StoredByMain
    BY <2>3 DEF StoredByMain
  <2>5. httpd.at = "off" \/ main'.at \in {"logger", "up"}
    BY <2>1, <2>3 DEF StoredInv
  <2> QED BY <2>1, <2>2, <2>4, <2>5, StoredFrame
<1>2. CASE load
  <2>1. /\ main.at = "load" /\ main' = [main EXCEPT !.at = "wifi", !.config = load_config]
        /\ UNCHANGED <<nvs, config, httpd, button, hist>>
    BY <1>2 DEF load, flash, ending
  <2>2. main'.at = "wifi" /\ main'.config = load_config
    BY <2>1, <1>0 DEF MainTask
  <2>3. httpd.at = "off"
    BY <2>1 DEF StoredInv
  <2>4. load_config' = load_config
    BY <2>1 DEF load_config
  <2>5. \A k \in Key : load_config[k] = Empty => Default[k] = Empty
    BY DEF load_config
  <2>6. \A k \in Key : Stored(main.config, k)'
    BY <2>2, <2>4, <2>5 DEF Stored
  <2>7. StoredByMain' \subseteq Key
    BY <2>2 DEF StoredByMain
  <2>8. \A k \in Key \ Range(Keys) : config'[k] = Default[k] /\ main'.config[k] = Default[k]
    BY <2>1, <2>2, Loads DEF StoredInv
  <2> QED BY <2>1, <2>3, <2>6, <2>7, <2>8 DEF StoredInv
<1>3. CASE wps_poll
  <2> DEFINE got == IF wps.got_creds THEN wps.buf ELSE wps.sta
             c == [k \in Key |-> IF got = None \/ k \notin DOMAIN got THEN main.config[k] ELSE got[k]]
  <2>1. /\ main.at = "wps" /\ UNCHANGED <<nvs, config, httpd, button, hist>>
        /\ \/ main' = [main EXCEPT !.at = "serve"]
           \/ main' = [main EXCEPT !.at = "wps_ssid", !.config = c]
    BY <1>3 DEF wps_poll, flash, web, ending
  <2>2. \A k \in Key \ WifiKeys : c[k] = main.config[k]
    <3>1. got \in Router \cup {None}
      BY DEF TypeOK, Wps
    <3>2. got # None => DOMAIN got \subseteq WifiKeys
      BY <3>1, SettingsAssumption DEF SettingsAssumption
    <3> QED BY <3>2
  <2> HIDE DEF c
  <2>3. \/ main'.at = "serve" /\ main'.config = main.config
        \/ main'.at = "wps_ssid" /\ main'.config = c
    BY <2>1, <1>0 DEF MainTask
  <2>4. WifiKeys \subseteq Range(Keys)
    BY SettingsAssumption DEF SettingsAssumption
  <2>5. /\ StoredByMain' \subseteq StoredByMain
        /\ \A k \in StoredByMain' : main'.config[k] = main.config[k]
    BY <2>1, <2>2, <2>3 DEF StoredByMain
  <2>6. \A k \in Key \ Range(Keys) : main'.config[k] = main.config[k]
    BY <2>2, <2>3, <2>4
  <2>7. httpd.at = "off"
    BY <2>1 DEF StoredInv
  <2> QED BY <2>1, <2>5, <2>6, <2>7, StoredFrame
<1>4. CASE start_http_server
  <2>1. /\ main.at = "serve" /\ main' = [main EXCEPT !.at = "logger"]
        /\ config' = main.config
        /\ httpd' \in {[httpd EXCEPT !.at = "off"], [httpd EXCEPT !.at = "idle"]}
        /\ UNCHANGED <<nvs, button, hist>>
    BY <1>4 DEF start_http_server, flash, ending
  <2>2. main'.at = "logger" /\ main'.config = main.config
    BY <2>1, <1>0 DEF MainTask
  <2>3. httpd'.at \in {"off", "idle"}
    BY <2>1 DEF TypeOK, Httpd
  <2>4. load_config' = load_config
    BY <2>1 DEF load_config
  <2>5. button = "up" /\ hist.same => \A k \in Key : Stored(main.config, k)
    BY <2>1 DEF StoredInv, StoredByMain
  <2>6. button' = "up" /\ hist'.same => \A k \in Key : Stored(config, k)'
    BY <2>1, <2>4, <2>5 DEF Stored
  <2>7. StoredByMain' = {}
    BY <2>2 DEF StoredByMain
  <2>8. \A k \in Key \ Range(Keys) : config'[k] = Default[k] /\ main'.config[k] = Default[k]
    BY <2>1, <2>2 DEF StoredInv
  <2> QED BY <2>2, <2>3, <2>6, <2>7, <2>8 DEF StoredInv
<1> QED BY <1>1, <1>2, <1>3, <1>4

\* One of the keys that WPS gave is written.
LEMMA StoredWps ==
  ASSUME TypeOK, StoredInv,
         NEW at, NEW key, NEW next,
         \/ at = "wps_ssid" /\ key = "wifi_ssid" /\ next = "wps_psk"
         \/ at = "wps_psk" /\ key = "wifi_psk" /\ next = "serve",
         wps_write(at, key, next)
  PROVE  StoredInv'
<1>1. PICK ok \in BOOLEAN : /\ SetStr(key, main.config[key], ok)
                            /\ hist' = [hist EXCEPT !.same = @ /\ ok]
  BY DEF wps_write
<1>2. /\ main.at = at /\ main' = [main EXCEPT !.at = next]
      /\ UNCHANGED <<config, httpd, button>>
  BY DEF wps_write, web, ending
<1>3. main'.at = next /\ main'.config = main.config
  BY <1>2 DEF TypeOK, MainTask
<1>4. key \in Range(Keys) /\ key \in Key /\ main.config[key] \in Value
  BY Keyed DEF TypeOK, MainTask
<1>5. /\ \A k \in Key : k # key => (load_config[k])' = load_config[k]
      /\ ok => (load_config[key])' = IF main.config[key] = Empty THEN Default[key] ELSE main.config[key]
  BY <1>1, <1>4, SetStrOf
<1>6. hist'.same <=> (hist.same /\ ok)
  BY <1>1 DEF TypeOK, Hist
<1>7. StoredByMain' \subseteq StoredByMain \cup {key} /\ StoredByMain' \subseteq Key
  BY <1>2, <1>3 DEF StoredByMain, WifiKeys
<1>8. button' = "up" /\ hist'.same => \A k \in StoredByMain' : Stored(main.config, k)'
  <2> SUFFICES ASSUME button' = "up", hist'.same, NEW k \in StoredByMain'
               PROVE  Stored(main.config, k)'
    OBVIOUS
  <2>1. CASE k = key
    BY <2>1, <1>3, <1>5, <1>6 DEF Stored
  <2>2. CASE k # key
    <3>1. Stored(main.config, k)
      BY <2>2, <1>2, <1>6, <1>7 DEF StoredInv
    <3> QED BY <3>1, <2>2, <1>3, <1>5, <1>7 DEF Stored
  <2> QED BY <2>1, <2>2
<1>9. httpd.at = "off"
  BY <1>2 DEF StoredInv
<1> QED BY <1>2, <1>3, <1>8, <1>9 DEF StoredInv
\* A form is in memory, and nothing of it is saved yet.
LEMMA StoredPost ==
  ASSUME TypeOK, StoredInv, NEW b \in Browser, NEW form \in Forms, post_config(b, form)
  PROVE  StoredInv'
<1>1. /\ httpd.at = "idle" /\ UNCHANGED <<nvs, main, button>>
      /\ config' = [k \in Key |-> IF k \in DOMAIN form THEN form[k] ELSE config[k]]
      /\ \/ httpd' = [at |-> "save", left |-> Keys, ok |-> TRUE]
         \/ httpd' = httpd /\ hist' = [hist EXCEPT !.same = FALSE]
  BY DEF post_config, is_auth, flash, booting, ending
<1>2. DOMAIN form \subseteq Range(Keys)
  BY SettingsAssumption DEF SettingsAssumption
<1>3. \A k \in Key \ Range(Keys) : config'[k] = Default[k] /\ main'.config[k] = Default[k]
  BY <1>1, <1>2 DEF StoredInv
<1>4. main.at \in {"logger", "up"} /\ StoredByMain' = {}
  BY <1>1 DEF StoredInv, StoredByMain
<1>5. \/ httpd'.at = "save" /\ httpd'.left = Keys
      \/ httpd'.at = "idle" /\ ~hist'.same
  BY <1>1 DEF TypeOK, Hist
<1>6. Keys # <<>>
  BY Keyed
<1> QED BY <1>1, <1>3, <1>4, <1>5, <1>6 DEF StoredInv

\* One key more is saved; with the last of them all are, if none has failed.
LEMMA StoredSave ==
  ASSUME TypeOK, StoredInv, nvs_write_key
  PROVE  StoredInv'
<1>1. /\ httpd.at = "save" /\ httpd.left # <<>> /\ httpd.left \in Seq(Range(Keys))
      /\ main.at \in {"logger", "up"}
  BY DEF nvs_write_key, StoredInv, TypeOK, Httpd
<1>0. PICK h : h = Head(httpd.left)
  OBVIOUS
<1>2. PICK ok \in BOOLEAN :
        /\ SetStr(h, config[h], ok)
        /\ httpd' = IF Len(httpd.left) > 1
                      THEN [httpd EXCEPT !.left = Tail(@), !.ok = @ /\ ok]
                      ELSE [NoHttpd EXCEPT !.at = "idle"]
        /\ hist' = IF httpd'.at = "idle" THEN [hist EXCEPT !.same = httpd.ok /\ ok] ELSE hist
  BY <1>0 DEF nvs_write_key
<1>3. UNCHANGED <<main, config, button>>
  BY DEF nvs_write_key, booting, ending
<1>4. h \in Range(Keys) /\ h \in Key /\ config[h] \in Value
  BY <1>0, <1>1, Keyed, HeadTailProperties DEF TypeOK
<1>5. /\ \A k \in Range(Keys) \ Range(httpd.left) : k # h
      /\ Range(httpd.left) \subseteq Range(Tail(httpd.left)) \cup {h}
      /\ Tail(httpd.left) \in Seq(Range(Keys)) /\ Len(Tail(httpd.left)) = Len(httpd.left) - 1
      /\ Len(httpd.left) \in Nat \ {0}
  <2>1. /\ httpd.left[1] = h /\ Tail(httpd.left) \in Seq(Range(Keys))
        /\ Len(Tail(httpd.left)) = Len(httpd.left) - 1
        /\ \A i \in 1 .. Len(Tail(httpd.left)) : Tail(httpd.left)[i] = httpd.left[i + 1]
    BY <1>0, <1>1, HeadTailProperties
  <2>2. /\ Len(httpd.left) \in Nat \ {0} /\ DOMAIN httpd.left = 1 .. Len(httpd.left)
        /\ DOMAIN Tail(httpd.left) = 1 .. Len(Tail(httpd.left))
    BY <1>1, <2>1, LenProperties, EmptySeq
  <2>3. h \in Range(httpd.left)
    BY <2>1, <2>2 DEF Range
  <2>4. ASSUME NEW i \in DOMAIN httpd.left, i # 1
        PROVE  httpd.left[i] \in Range(Tail(httpd.left))
    <3>1. i - 1 \in 1 .. Len(Tail(httpd.left)) /\ (i - 1) + 1 = i
      BY <2>1, <2>2, <2>4
    <3>2. Tail(httpd.left)[i - 1] = httpd.left[i]
      BY <2>1, <3>1
    <3> QED BY <2>2, <3>1, <3>2 DEF Range
  <2>5. Range(httpd.left) \subseteq Range(Tail(httpd.left)) \cup {h}
    BY <2>1, <2>4 DEF Range
  <2> QED BY <2>1, <2>2, <2>3, <2>5
<1>6. /\ \A k \in Key : k # h => (load_config[k])' = load_config[k]
      /\ ok => (load_config[h])' = IF config[h] = Empty THEN Default[h] ELSE config[h]
  <2>1. SetStr(h, config[h], ok)
    BY <1>2
  <2> QED BY <2>1, <1>4, SetStrOf
<1>7. StoredByMain' = {}
  BY <1>1, <1>3 DEF StoredByMain
<1>8. /\ \A k \in Key \ Range(Keys) : config'[k] = Default[k] /\ main'.config[k] = Default[k]
      /\ \A k \in Key \ Range(Keys) : load_config[k] = Default[k]
  BY <1>3, Loads DEF StoredInv
\* the keys that are saved now
<1>9. ASSUME button' = "up", httpd.ok, ok,
             NEW k \in Range(Keys), k \notin Range(httpd.left) \/ k = h
      PROVE  Stored(config, k)'
  <2>1. CASE k = h
    BY <2>1, <1>3, <1>6, <1>9 DEF Stored
  <2>2. CASE k # h
    <3>1. Stored(config, k)
      BY <2>2, <1>1, <1>3, <1>9 DEF StoredInv
    <3>2. k \in Key
      BY Keyed
    <3> QED BY <2>2, <3>1, <3>2, <1>3, <1>6 DEF Stored
  <2> QED BY <2>1, <2>2
<1>10. CASE Len(httpd.left) > 1
  <2>1. httpd' = [httpd EXCEPT !.left = Tail(httpd.left), !.ok = httpd.ok /\ ok]
    BY <1>2, <1>10
  <2>2. httpd'.at = "save" /\ httpd'.left = Tail(httpd.left) /\ (httpd'.ok <=> (httpd.ok /\ ok))
    BY <2>1, <1>1 DEF TypeOK, Httpd
  <2>3. httpd'.left # <<>>
    <3> DEFINE m == Len(httpd.left)
               n == Len(Tail(httpd.left))
    <3>0. m \in Nat \ {0} /\ n = m - 1 /\ m > 1
      BY <1>5, <1>10
    <3> HIDE DEF m, n
    <3>1. n # 0
      BY <3>0
    <3>2. Len(<<>>) = 0
      OBVIOUS
    <3> QED BY <2>2, <3>1, <3>2 DEF n
  <2>4. button' = "up" /\ httpd'.ok =>
          \A k \in Range(Keys) \ Range(httpd'.left) : Stored(config, k)'
    BY <2>2, <1>5, <1>9
  <2> QED BY <2>2, <2>3, <2>4, <1>1, <1>3, <1>7, <1>8 DEF StoredInv
<1>11. CASE ~(Len(httpd.left) > 1)
  <2>1. httpd' = [NoHttpd EXCEPT !.at = "idle"]
    BY <1>2, <1>11
  <2>2. httpd'.at = "idle"
    BY <2>1 DEF NoHttpd
  <2>3. hist'.same <=> (httpd.ok /\ ok)
    BY <2>2, <1>2 DEF TypeOK, Hist
  <2>4. \A k \in Range(httpd.left) : k = h
    <3> DEFINE m == Len(httpd.left)
               n == Len(Tail(httpd.left))
    <3>0. m \in Nat \ {0} /\ n = m - 1 /\ ~(m > 1)
      BY <1>5, <1>11
    <3> HIDE DEF m, n
    <3>1. n = 0
      BY <3>0
    <3>2. Range(Tail(httpd.left)) = {}
      BY <3>1, <1>5, LenProperties DEF Range, n
    <3> QED BY <3>2, <1>5
  <2>5. ASSUME button' = "up", hist'.same, NEW k \in Key
        PROVE  Stored(config, k)'
    <3>1. CASE k \in Range(Keys)
      BY <3>1, <2>3, <2>4, <2>5, <1>9
    <3>2. CASE k \notin Range(Keys)
      BY <3>2, <1>3, <1>4, <1>6, <1>8 DEF Stored
    <3> QED BY <3>1, <3>2
  <2> QED BY <2>2, <2>5, <1>1, <1>3, <1>7, <1>8 DEF StoredInv
<1> QED BY <1>10, <1>11

\* A reset: the memory has the defaults, and so has NVS if all is erased.
LEMMA StoredReset ==
  ASSUME TypeOK, StoredInv, NEW b \in Browser, post_reset(b)
  PROVE  StoredInv'
<1>1. PICK ok \in BOOLEAN : nvs_erase_namespace(ok) /\ hist' = [hist EXCEPT !.same = ok]
  BY DEF post_reset
<1>2. /\ httpd.at = "idle" /\ config' = Default /\ UNCHANGED <<main, httpd, button>>
  BY DEF post_reset, is_auth, booting, ending
<1>3. ok => \A k \in Key : (load_config[k])' = Default[k]
  BY <1>1, EraseOf
<1>4. hist'.same <=> ok
  BY <1>1 DEF TypeOK, Hist
<1>5. hist'.same => \A k \in Key : Stored(config, k)'
  BY <1>2, <1>3, <1>4 DEF Stored
<1>6. main.at \in {"logger", "up"} /\ StoredByMain' = {}
  BY <1>2 DEF StoredInv, StoredByMain
<1>7. \A k \in Key \ Range(Keys) : config'[k] = Default[k] /\ main'.config[k] = Default[k]
  BY <1>2 DEF StoredInv
<1> QED BY <1>2, <1>5, <1>6, <1>7 DEF StoredInv

LEMMA StoredKept ==
  ASSUME TypeOK, StoredInv, [Next]_vars
  PROVE  StoredInv'
<1>1. CASE PowerLoss \/ esp_restart \/ watchdog
  BY <1>1, StoredOff DEF PowerLoss, esp_restart, watchdog
<1>2. CASE \/ PowerOn \/ record_count \/ record_log \/ load \/ wifi \/ wps_poll
           \/ start_http_server \/ init_logger
  BY <1>2, StoredBoot
<1>3. CASE wps_write("wps_ssid", "wifi_ssid", "wps_psk") \/ wps_write("wps_psk", "wifi_psk", "serve")
  BY <1>3, StoredWps
\* what changes nothing of it
<1>4. CASE wps_events \/ logout \/ (\E b \in Browser : login(b))
           \/ factory_restart \/ hang \/ reboot_thread
  <2>1. UNCHANGED <<nvs, config, httpd, main>>
    BY <1>4 DEF wps_events, wps_event_creds, wps_event_config, wps_event_success,
                wps_event_failed, login, logout, factory_restart, hang, reboot_thread,
                flash, web, booting
  <2>2. button' = button /\ hist'.same = hist.same
    BY <1>4 DEF wps_events, wps_event_creds, wps_event_config, wps_event_success,
                wps_event_failed, login, logout, factory_restart, hang, reboot_thread,
                ending, TypeOK, Hist
  <2>3. httpd.at = "off" \/ main'.at \in {"logger", "up"}
    BY <2>1 DEF StoredInv
  <2>4. StoredByMain' = StoredByMain
    BY <2>1 DEF StoredByMain
  <2> QED BY <2>1, <2>2, <2>3, <2>4, StoredFrame
<1>5. ASSUME NEW b \in Browser, post_reset(b)
      PROVE  StoredInv'
  BY <1>5, StoredReset
<1>6. ASSUME NEW b \in Browser, post_reboot(b)
      PROVE  StoredInv'
  <2>1. /\ httpd.at = "idle" /\ UNCHANGED <<nvs, config, main, button, hist>>
        /\ httpd' = httpd \/ httpd' = [httpd EXCEPT !.at = "stuck"]
    BY <1>6 DEF post_reboot, is_auth, flash, booting, ending
  <2>2. httpd'.at \in {"idle", "stuck"}
    BY <2>1 DEF TypeOK, Httpd
  <2>3. load_config' = load_config
    BY <2>1 DEF load_config
  <2>4. \A k \in Key : Stored(config, k) <=> Stored(config, k)'
    BY <2>1, <2>3 DEF Stored
  <2>5. main.at \in {"logger", "up"} /\ StoredByMain' = {}
    BY <2>1 DEF StoredInv, StoredByMain
  <2> QED BY <2>1, <2>2, <2>4, <2>5 DEF StoredInv
<1>7. ASSUME NEW b \in Browser, NEW form \in Forms, post_config(b, form)
      PROVE  StoredInv'
  BY <1>7, StoredPost
<1>8. CASE nvs_write_key
  BY <1>8, StoredSave
<1>9. CASE very_long_press \/ factory_reset
  <2>1. button' # "up" /\ UNCHANGED <<config, main, httpd>>
    BY <1>9 DEF very_long_press, factory_reset, booting, web
  <2> QED BY <2>1 DEF StoredInv
<1>10. CASE UNCHANGED vars
  <2>1. UNCHANGED <<nvs, config, httpd, main, button, hist>>
    BY <1>10 DEF vars, flash, web, booting, ending
  <2>2. StoredByMain' = StoredByMain
    BY <2>1 DEF StoredByMain
  <2>3. httpd.at = "off" \/ main'.at \in {"logger", "up"}
    BY <2>1 DEF StoredInv
  <2> QED BY <2>1, <2>2, <2>3, StoredFrame
<1>11. requested => \/ logout \/ nvs_write_key
                    \/ \E b \in Browser : login(b) \/ post_reset(b) \/ post_reboot(b)
                                            \/ \E form \in Forms : post_config(b, form)
  BY DEF requested
<1> QED
  BY <1>1, <1>2, <1>3, <1>4, <1>5, <1>6, <1>7, <1>8, <1>9, <1>10, <1>11
     DEF Next, main_task, resets

-------------------------------------------------------------------------------
(* Theorems.                                                               *)

LEMMA InitInv == Init => SettingsInv
<1> SUFFICES ASSUME Init PROVE SettingsInv
  OBVIOUS
<1>0. MaxBoots \in Nat /\ 0 \in 0 .. MaxBoots /\ MaxRequests \in Nat /\ MAX_ENTRIES \in Nat
      /\ 0 \in 0 .. MaxRequests /\ Default \in [Key -> Value]
  BY SettingsAssumption DEF SettingsAssumption
<1>1. TypeOK
  <2>1. DOMAIN nvs \subseteq Range(Keys) /\ Range(nvs) \subseteq Value
    BY DEF Init, Range
  <2>2. boot \in [count : 0 .. MaxBoots, log : Seq(1 .. MaxBoots)]
    <3>1. <<>> \in Seq(1 .. MaxBoots)
      OBVIOUS
    <3> QED BY <3>1, <1>0 DEF Init
  <2>3. main \in MainTask
    BY <1>0 DEF Init, MainTask
  <2>4. wps \in Wps /\ hist \in Hist
    BY DEF Init, NoWps, Wps, Hist
  <2>5. httpd \in Httpd
    <3>1. <<>> \in Seq(Range(Keys))
      OBVIOUS
    <3> QED BY <3>1 DEF Init, NoHttpd, Httpd
  <2>6. restart \in [at : {"none", "called", "hung"}, wdt : BOOLEAN]
    BY DEF Init, Running
  <2> QED BY <2>1, <2>2, <2>3, <2>4, <2>5, <2>6, <1>0 DEF Init, TypeOK
<1>2. StoredInv
  <2>1. main.at = "off" /\ main.config = Default /\ config = Default /\ httpd.at = "off"
    BY DEF Init, NoHttpd
  <2>2. StoredByMain = {}
    BY <2>1 DEF StoredByMain
  <2> QED BY <2>1, <2>2 DEF StoredInv
<1>3. WpsInv /\ CredsOfRouter
  BY DEF Init, NoWps, WpsInv, CredsOfRouter
<1>4. LogInv /\ LogNewestFirst
  <2>1. boot.log = <<>> /\ boot.count = 0 /\ main.at = "off" /\ main.boots = 0
    BY DEF Init
  <2> QED BY <2>1, <1>0 DEF LogInv, LogNewestFirst
<1> QED BY <1>1, <1>2, <1>3, <1>4 DEF SettingsInv

LEMMA StepInv == SettingsInv /\ [Next]_vars => SettingsInv'
BY TypeKept, StoredKept, WpsKept, LogKept DEF SettingsInv

\* The parts of the inductive invariant hold together: types, what is stored
\* when, what WPS has from the router, and how far the boot log is.
THEOREM SettingsInvariant == Spec => []SettingsInv
<1>1. Init => SettingsInv
  BY InitInv
<1>2. SettingsInv /\ [Next]_vars => SettingsInv'
  BY StepInv
<1> QED BY <1>1, <1>2, PTL DEF Spec

\* Whatever saves, resets, WPS, failures of single keys and losses of power
\* came before: an idle server has in memory what the next boot will load
\* (nvs_write_all, load_config, post_config), unless the last writing failed.
THEOREM SettingsLast == Spec => []SettingsSurvive
<1>1. SettingsInv => SettingsSurvive
  <2> SUFFICES ASSUME SettingsInv, httpd.at = "idle", button = "up", hist.same
               PROVE  load_config = [k \in Key |-> IF config[k] = Empty THEN Default[k] ELSE config[k]]
    BY DEF SettingsSurvive
  <2>1. \A k \in Key : load_config[k] = IF config[k] = Empty THEN Default[k] ELSE config[k]
    BY DEF SettingsInv, StoredInv, Stored
  <2> QED BY <2>1 DEF load_config
<1> QED BY <1>1, SettingsInvariant, PTL

\* Name and password that wifi_connect_wps hands to nvs_write_wifi_creds are
\* those of the router of this boot, from the event or the driver.
THEOREM CredsFromRouter == Spec => []CredsOfRouter
<1>1. SettingsInv => CredsOfRouter
  BY DEF SettingsInv
<1> QED BY <1>1, SettingsInvariant, PTL

\* The boot log stays within MAX_ENTRIES and is newest first, whenever the
\* power goes in record_boot.
THEOREM LogInOrder == Spec => []LogNewestFirst
<1>1. SettingsInv => LogNewestFirst
  BY DEF SettingsInv
<1> QED BY <1>1, SettingsInvariant, PTL
===============================================================================
