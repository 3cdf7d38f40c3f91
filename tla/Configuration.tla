--------------------------- MODULE Configuration ---------------------------
(***************************************************************************)
(* The configuration: the items of config.c in non-volatile storage, what  *)
(* the boot of main.cpp reads and writes, and the page that posts a form   *)
(* to web_server.c, after which the device restarts.                       *)
(*                                                                         *)
(* NVS is external: a value that was set is read back at once; it is safe  *)
(* from a restart only after a commit.  A text that is a number stands for *)
(* its value: "uart" for 4, "bluetooth" for 1, 257 when it is an int8_t,   *)
(* and 256 is 0 then.  "pointer" is the bytes of a pointer, and "replaced" *)
(* what a browser makes of bytes that are no text.                         *)
(* The items stand for their kinds:                                        *)
(* in_tcp_ip for all strings with a fallback, serial_baurate for the ports,*)
(* w_ap_pass for the secrets, w_ap_color and w_ap_gw for their types.      *)
(***************************************************************************)
EXTENDS Naturals, Sequences

CONSTANTS
    Forms,      \* what is submitted: functions from items to JSON entries
    MaxLosses,  \* bound: losses of power in a behaviour
    Segmented   \* a body may come in more pieces than the one receive takes

Keys == {"in_pro_type", "out_pro_type", "serial_baurate", "in_tcp_ip",
         "w_ap_ssid", "w_ap_pass", "w_ap_color", "w_ap_gw"}

Number == {"in_pro_type", "out_pro_type", "serial_baurate"}
String == {"in_tcp_ip", "w_ap_ssid", "w_ap_pass"}
Secret == {"w_ap_pass"}

(* A JSON entry is a string, an array of four strings, or one of numbers.  *)
Numerals  == {"0", "0.0", "uart", "usb", "bluetooth", "udp", "115200", "256", "257"}
Colours   == {"black", "white"}
Addresses == {"10.33.3.4", "192.168.4.1", "0.0.0.0"}
Texts     == Numerals \cup Colours \cup Addresses \cup
                {"", "unchanged", "word", "pointer", "replaced", "key address", "longest",
                 "ESP_BRIDGE"}
Entries == [json : {"string", "strings", "numbers"}, text : Texts]
Values  == Texts \cup {"black/55", "white/55"}

(* What is sent is text, and "word" stands for any that is no number.      *)
Sendable(k) ==
    {e \in Entries : /\ e.text # "pointer"
                     /\ k \in Number => e.text \in Numerals \cup {"", "unchanged", "word"}}

ASSUME ConfigurationAssumption ==
    /\ \A f \in Forms : DOMAIN f \subseteq Keys /\ \A k \in DOMAIN f : f[k] \in Sendable(k)
    /\ MaxLosses \in Nat
    /\ Segmented \in BOOLEAN

VARIABLES
    nvs,        \* the storage as the handle reads it ("absent": no entry)
    maybe,      \* per item, the values a restart may find
    boot,       \* the main task: the index of its next step in Boot
    board,      \* board_data and, for w_ap_ssid, the name the driver was given
    driver,     \* the port uart_init installed, for the task that reads it
    http,       \* the request in config_post_handler
    pending,    \* config_restart_task exists
    losses,     \* bound: losses of power so far (none where memory is scarce)
    accepted,   \* history: the value of the last success answer that set it
    misfiled,   \* history: the output's default was stored as the input
    scarce      \* fixed per behaviour: nvs_set and xTaskCreate may fail

store   == <<nvs, maybe>>
history == <<losses, accepted, misfiled, scarce>>
vars    == <<nvs, maybe, boot, board, driver, http, pending, losses, accepted, misfiled, scarce>>

-----------------------------------------------------------------------------
(* The items table and the getters.                                        *)

(* The default of the baud rate is the address of the item's own key.      *)
Default == [in_pro_type |-> "uart", out_pro_type |-> "bluetooth",
            serial_baurate |-> "key address", in_tcp_ip |-> "10.33.3.4",
            w_ap_ssid |-> "", w_ap_pass |-> "",
            w_ap_color |-> "black/55", w_ap_gw |-> "192.168.4.1"]

Read(k) == IF nvs[k] = "absent" THEN Default[k] ELSE nvs[k]

Blank == {"", "0"}

(* Storing a value: at once for readers, one more possibility for a restart. *)
Set(k, v) == nvs' = [nvs EXCEPT ![k] = v] /\ maybe' = [maybe EXCEPT ![k] = @ \cup {v}]

Init ==
    /\ nvs = [k \in Keys |-> "absent"] /\ maybe = [k \in Keys |-> {"absent"}]
    /\ boot = 1 /\ board = [k \in Keys |-> "0"] /\ driver = "none"
    /\ http = [pc |-> "idle", left |-> {}, sent |-> <<>>, set |-> {}]
    /\ pending = FALSE
    /\ scarce \in BOOLEAN
    /\ losses = IF scarce THEN MaxLosses ELSE 0
    /\ accepted = [k \in Keys |-> "none"] /\ misfiled = FALSE

-----------------------------------------------------------------------------
(* The main task.  user_get_data_input runs before and after uart_init.    *)

(* Fault: the items are not read before uart_init. *)
BootUartFirst == <<"uart_init", "in_pro_type", "out_pro_type", "serial_baurate", "in_tcp_ip",
                   "wifi_init", "web_server_start", "up">>

Boot == <<"in_pro_type", "out_pro_type", "serial_baurate", "in_tcp_ip", "uart_init",
          "in_pro_type", "out_pro_type", "serial_baurate", "in_tcp_ip",
          "wifi_init", "web_server_start", "up">>

At(step) == Boot[boot] = step
Up       == At("up")

Fallback == [in_pro_type |-> "uart", out_pro_type |-> "bluetooth",
             serial_baurate |-> "115200", in_tcp_ip |-> "10.33.3.4"]

(* What is stored for a blank item: the output's default goes under the    *)
(* input's key, and of a string the bytes of the pointer to it are stored. *)
FallbackKey(k)   == IF k = "out_pro_type" THEN "in_pro_type" ELSE k
FallbackValue(k) == IF k \in String THEN "pointer" ELSE Fallback[k]

GetDataInput(k) ==
    /\ At(k)
    /\ IF Read(k) \in Blank
       THEN /\ board' = [board EXCEPT ![k] = Fallback[k]]
            /\ \/ /\ Set(FallbackKey(k), FallbackValue(k))
                  /\ misfiled' = (misfiled \/ k = "out_pro_type")
               \/ scarce /\ UNCHANGED <<store, misfiled>>
       ELSE /\ board' = [board EXCEPT ![k] = Read(k)]
            /\ UNCHANGED <<store, misfiled>>
    /\ boot' = boot + 1
    /\ UNCHANGED <<driver, http, pending, losses, accepted, scarce>>

Ports == {"uart", "usb"}

(* Fault: a port is taken for granted. *)
UartInitAny ==
    /\ At("uart_init")
    /\ driver' = board["in_pro_type"]
    /\ boot' = boot + 1
    /\ UNCHANGED <<store, board, http, pending, history>>

UartInit ==
    /\ At("uart_init")
    /\ driver' = IF board["in_pro_type"] \in Ports THEN board["in_pro_type"] ELSE "none"
    /\ boot' = boot + 1
    /\ UNCHANGED <<store, board, http, pending, history>>

(* The access point is switched on, as by default; else nothing happens    *)
(* here.  Its name: made up and stored, uncommitted, if there is none; one *)
(* of 32 characters does not fit with its terminator, and the buffer stays *)
(* as it was.                                                              *)
WifiInit ==
    /\ At("wifi_init")
    /\ LET name == Read("w_ap_ssid") IN
       IF name = ""
       THEN /\ Set("w_ap_ssid", "ESP_BRIDGE") \/ (scarce /\ UNCHANGED store)
            /\ board' = [board EXCEPT !["w_ap_ssid"] = "ESP_BRIDGE"]
       ELSE /\ board' = [board EXCEPT !["w_ap_ssid"] = IF name = "longest" THEN "" ELSE name]
            /\ UNCHANGED store
    /\ boot' = boot + 1
    /\ UNCHANGED <<driver, http, pending, history>>

(* web_server_start reads the items again, blank or not. *)
WebServerStart ==
    /\ At("web_server_start")
    /\ board' = [k \in Keys |-> IF k \in DOMAIN Fallback THEN Read(k) ELSE board[k]]
    /\ boot' = boot + 1
    /\ UNCHANGED <<store, driver, http, pending, history>>

Main == (\E k \in DOMAIN Fallback : GetDataInput(k)) \/ UartInit \/ WifiInit \/ WebServerStart

-----------------------------------------------------------------------------
(* POST /config: every item of the table that the form has, in order.      *)

ItemOrder == <<"w_ap_color", "w_ap_ssid", "w_ap_pass", "w_ap_gw", "in_pro_type",
               "out_pro_type", "in_tcp_ip", "serial_baurate">>

FirstOf(S) == ItemOrder[CHOOSE i \in DOMAIN ItemOrder :
                            /\ ItemOrder[i] \in S
                            /\ \A j \in 1..i - 1 : ItemOrder[j] \notin S]

(* Fault: a secret that was shown as unchanged is taken for its text. *)
SkippedOnlyEmpty(k, e) == e.json = "string" /\ e.text = "" /\ k \notin String

(* Of a number strtol takes what comes before the point, and an int8_t the *)
(* low byte.                                                               *)
Whole(t)  == IF t = "0.0" THEN "0" ELSE t
Narrow(t) == IF t \in {"256", "115200"} THEN "0" ELSE IF t = "257" THEN "bluetooth" ELSE t

NumberOf(k, t) ==
    IF t \notin Numerals THEN "refused"
    ELSE IF k = "serial_baurate" THEN Whole(t) ELSE Narrow(Whole(t))

ColourOf(t) == IF t = "black" THEN "black" ELSE IF t = "white" THEN "white/55" ELSE "refused"

AddressOf(e) ==
    IF e.json = "string" THEN "refused"
    ELSE IF e.json = "numbers" THEN "crash"
    ELSE IF e.text \in Addresses THEN e.text ELSE "0.0.0.0"

(* What becomes of an entry: "skipped", "refused" (an error is logged), a  *)
(* read through the NULL valuestring of what is not a string ("crash"), or *)
(* the value that is stored.                                               *)
Skipped(k, e) == e.json = "string" /\ (e.text = "unchanged" \/ (e.text = "" /\ k \notin String))

Outcome(k, e) ==
    IF Skipped(k, e) THEN "skipped"
    ELSE IF k = "w_ap_gw" THEN AddressOf(e)
    ELSE IF e.json # "string" THEN "crash"
    ELSE IF k \in String THEN e.text
    ELSE IF k = "w_ap_color" THEN ColourOf(e.text)
    ELSE NumberOf(k, e.text)

(* GET /config: colours without their alpha, addresses as numbers, secrets *)
(* hidden, strings as the bytes they are.                                  *)
Shown(k, v) ==
    CASE k \in Secret /\ v # ""        -> [json |-> "string", text |-> "unchanged"]
      [] k = "w_ap_color"  -> [json |-> "string", text |-> IF v = "white/55" THEN "white" ELSE "black"]
      [] k = "w_ap_gw"     -> [json |-> "numbers", text |-> v]
      [] OTHER             -> [json |-> "string", text |-> v]

(* The settings page: the number items are selects, which show a value     *)
(* that is none of their options as nothing and are not submitted then;    *)
(* the four inputs of an address are submitted as strings; and bytes that  *)
(* are no text have become replacement characters on their way.            *)
Options(k)    == IF k = "serial_baurate" THEN {"115200"} ELSE {"uart", "usb", "bluetooth", "udp"}
Submits(k, e) == k \in Number => e.text \in Options(k)
Submitted(e)  == [json |-> IF e.json = "numbers" THEN "strings" ELSE e.json,
                  text |-> IF e.text = "pointer" THEN "replaced" ELSE e.text]

(* One receive: the rest of a body in several segments is not waited for,  *)
(* a part of it parses to nothing, and an empty form is processed.         *)
Post(form) ==
    /\ Up /\ http.pc = "idle"
    /\ \E got \in {DOMAIN form} \cup (IF Segmented THEN {{}} ELSE {}) :
          http' = [pc |-> "items", left |-> got, sent |-> form, set |-> {}]
    /\ UNCHANGED <<store, boot, board, driver, pending, history>>

(* Everything in memory is gone; per item one of the values survives.      *)
Unsettled == {k \in Keys : maybe[k] # {nvs[k]}}

Restart ==
    /\ \E found \in [Unsettled -> UNION {maybe[k] : k \in Unsettled}] :
          /\ \A k \in Unsettled : found[k] \in maybe[k]
          /\ nvs' = [k \in Keys |-> IF k \in Unsettled THEN found[k] ELSE nvs[k]]
    /\ maybe' = [k \in Keys |-> {nvs'[k]}]
    /\ boot' = 1 /\ board' = [k \in Keys |-> "0"] /\ driver' = "none"
    /\ http' = [pc |-> "idle", left |-> {}, sent |-> <<>>, set |-> {}]
    /\ pending' = FALSE

StoreItem ==
    /\ http.pc = "items" /\ http.left # {}
    /\ LET k    == FirstOf(http.left)
           what == Outcome(k, http.sent[k])
           rest == [http EXCEPT !.left = @ \ {k}] IN
       \/ /\ what \in {"skipped", "refused"}
          /\ http' = rest
          /\ UNCHANGED <<store, boot, board, driver, pending, history>>
       \/ /\ what = "crash"
          /\ Restart
          /\ UNCHANGED history
       \/ /\ what \notin {"skipped", "refused", "crash"}
          /\ Set(k, what)
          /\ http' = [rest EXCEPT !.set = @ \cup {k}]
          /\ accepted' = [accepted EXCEPT ![k] = "none"]
          /\ UNCHANGED <<boot, board, driver, pending, losses, misfiled, scarce>>
       \/ /\ scarce /\ what \notin {"skipped", "refused", "crash"}
          /\ http' = rest
          /\ UNCHANGED <<store, boot, board, driver, pending, history>>

(* Fault: the commit is forgotten. *)
CommitNothing ==
    /\ http.pc = "items" /\ http.left = {}
    /\ http' = [http EXCEPT !.pc = "restart"]
    /\ UNCHANGED <<store, boot, board, driver, pending, history>>

Commit ==
    /\ http.pc = "items" /\ http.left = {}
    /\ maybe' = [k \in Keys |-> {nvs[k]}]
    /\ http' = [http EXCEPT !.pc = "restart"]
    /\ UNCHANGED <<nvs, boot, board, driver, pending, history>>

(* Fault: the device is not told to restart. *)
ConfigRestartNever ==
    /\ http.pc = "restart"
    /\ http' = [http EXCEPT !.pc = "answer"]
    /\ UNCHANGED <<store, boot, board, driver, pending, history>>

ConfigRestart ==
    /\ http.pc = "restart"
    /\ http' = [http EXCEPT !.pc = "answer"]
    /\ pending' \in IF scarce THEN {pending, TRUE} ELSE {TRUE}
    /\ UNCHANGED <<store, boot, board, driver, history>>

(* "success": true, whatever happened to the items. *)
Answer ==
    /\ http.pc = "answer"
    /\ http' = [http EXCEPT !.pc = "idle"]
    /\ accepted' = [k \in Keys |-> IF k \in http.set THEN nvs[k] ELSE accepted[k]]
    /\ misfiled' = (misfiled /\ "in_pro_type" \notin http.set)
    /\ UNCHANGED <<store, boot, board, driver, pending, losses, scarce>>

Http == StoreItem \/ Commit \/ ConfigRestart \/ Answer

-----------------------------------------------------------------------------
(* config_restart_task, a second after it was created, and power.          *)

RestartTask == pending /\ Restart /\ UNCHANGED history

PowerLoss ==
    /\ losses < MaxLosses
    /\ Restart
    /\ losses' = losses + 1
    /\ UNCHANGED <<accepted, misfiled, scarce>>

Next == Main \/ (\E form \in Forms : Post(form)) \/ Http \/ RestartTask \/ PowerLoss

Spec == Init /\ [][Next]_vars

(* uart_task reads from the port board_data.input names; if that has       *)
(* changed since uart_init it never blocks, and app_main, of a lower       *)
(* priority, cannot count on its core.                                     *)
Spins == driver # "none" /\ board["in_pro_type"] \notin Ports

FairSpec == Spec /\ WF_vars(Main /\ ~Spins) /\ WF_vars(Http) /\ WF_vars(RestartTask)

-----------------------------------------------------------------------------
(* Properties. *)

StoreTypes ==
    /\ nvs \in [Keys -> Values \cup {"absent"}]
    /\ maybe \in [Keys -> SUBSET (Values \cup {"absent"})]
    /\ \A k \in Keys : nvs[k] \in maybe[k]

BootTypes == boot \in 1..Len(Boot) /\ board \in [Keys -> Values] /\ driver \in Ports \cup {"none"}

HttpTypes ==
    /\ http \in [pc : {"idle", "items", "restart", "answer"}, left : SUBSET Keys,
                 sent : Forms \cup {<<>>}, set : SUBSET Keys]
    /\ http.left \cup http.set \subseteq DOMAIN http.sent

HistoryTypes ==
    /\ pending \in BOOLEAN /\ losses \in 0..MaxLosses
    /\ accepted \in [Keys -> Values \cup {"none"}]
    /\ misfiled \in BOOLEAN /\ scarce \in BOOLEAN

TypeOK == StoreTypes /\ BootTypes /\ HttpTypes /\ HistoryTypes

(* An item that an answered POST has set keeps its value, through any      *)
(* number of restarts, crashes and losses of power, until it is posted     *)
(* again: config_post_handler commits before it answers, and the boot      *)
(* writes only blank items; except that the input is lost to the output's  *)
(* default (main.cpp:102).                                                 *)
AcceptedIsKept ==
    \A k \in Keys :
        accepted[k] \notin Blank \cup {"none"} /\ ~(k = "in_pro_type" /\ misfiled)
            => nvs[k] = accepted[k] /\ maybe[k] = {accepted[k]}

(* The page, submitted as config_get_handler filled it, changes nothing:   *)
(* of every item it submits the conversions of GET, page and POST give the *)
(* value back, and the hidden secrets stay.  Two items do change: a colour *)
(* loses the alpha that the page never had; and an address that was blank, *)
(* for which the boot stored the bytes of a pointer (main.cpp:131), no     *)
(* text, comes back as other bytes still.                                  *)
RepostChangesNothing ==
    \A k \in Keys :
        LET shown == Shown(k, Read(k))
            what  == Outcome(k, Submitted(shown)) IN
        Submits(k, shown) =>
            \/ what \in {"skipped", Read(k)}
            \/ k = "w_ap_color" /\ Shown(k, what) = shown
            \/ k = "in_tcp_ip" /\ Read(k) = "pointer"

(* Once the device is up, the serial driver is the one of the input in     *)
(* force: both were read, before and after uart_init, from one storage.    *)
(* Only where a blank output was stored they may differ (main.cpp:102), or *)
(* where the default of a blank input could not be stored.                 *)
DriverMatchesInput ==
    Up /\ board["out_pro_type"] \notin Blank /\ ~(scarce /\ board["in_pro_type"] \in Blank) =>
        driver = IF board["in_pro_type"] \in Ports THEN board["in_pro_type"] ELSE "none"

(* Why they hold.  A request is handled only while the main task rests,    *)
(* and what it has set is there and, once committed, the only value that a *)
(* restart can find.                                                       *)
RequestInv ==
    /\ http.pc # "idle" => Up
    /\ http.pc \in {"restart", "answer"} => \A k \in Keys : maybe[k] = {nvs[k]}
    /\ \A k \in http.set : nvs[k] # "absent"

(* Bytes that are no text are stored under the one key only, and under the *)
(* key of an address nothing but addresses.                                *)
Storable(k, v) ==
    /\ v = "pointer" => k = "in_tcp_ip"
    /\ k = "w_ap_gw" => v \in Addresses \cup {"absent"}

StorableInv == \A k \in Keys : \A v \in maybe[k] : Storable(k, v)

(* From its first reading to the web server's, the input is the one stored *)
(* or, if that is blank, its default, which is stored if it can be; and    *)
(* the driver is its port; unless the output is blank.                     *)
Effective(k) == IF Read(k) \in Blank THEN Fallback[k] ELSE Read(k)

BootInv ==
    boot > 1 /\ ~Up /\ Read("out_pro_type") \notin Blank =>
        /\ board["in_pro_type"] = Effective("in_pro_type")
        /\ Read("in_pro_type") \in Blank => scarce
        /\ boot > 5 => driver = IF board["in_pro_type"] \in Ports THEN board["in_pro_type"] ELSE "none"

(* After an answered form the device restarts and comes up with no restart *)
(* pending and everything in force that the storage then holds, unless     *)
(* memory ran out or a task spins.  That the storage still holds what the  *)
(* form set is AcceptedIsKept.                                             *)
PostTakesEffect ==
    http.pc = "answer" /\ ~scarce ~>
        Spins \/ (Up /\ ~pending /\ \A k \in DOMAIN Fallback : board[k] = Read(k))

(* "The ESP32 XBee has been restarted to apply the new configuration."     *)
(* (www/settings.html:1121), shown once "success" is answered              *)
(* (web_server.c:619): then the device comes up with what the form says in *)
(* force.                                                                  *)
Applied(form) ==
    \A k \in DOMAIN form \cap (DOMAIN Fallback \cup {"w_ap_ssid"}) : board[k] = form[k].text

SubmittedIsApplied ==
    \A form \in Forms :
        ~scarce /\ http.pc = "answer" /\ http.sent = form ~> Up /\ Applied(form)
=============================================================================
