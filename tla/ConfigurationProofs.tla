------------------------ MODULE ConfigurationProofs -------------------------
(***************************************************************************)
(* Proofs about Configuration.tla: its variables keep their types, what an *)
(* answered POST has set stays, the driver matches the input, and the page *)
(* can be posted again; for any forms, any restarts and losses of power.   *)
(***************************************************************************)
EXTENDS Configuration, TLAPS

LEMMA BootSteps ==
    /\ Len(Boot) = 12
    /\ Boot[1] = "in_pro_type" /\ Boot[2] = "out_pro_type" /\ Boot[3] = "serial_baurate"
    /\ Boot[4] = "in_tcp_ip" /\ Boot[5] = "uart_init" /\ Boot[6] = "in_pro_type"
    /\ Boot[7] = "out_pro_type" /\ Boot[8] = "serial_baurate" /\ Boot[9] = "in_tcp_ip"
    /\ Boot[10] = "wifi_init" /\ Boot[11] = "web_server_start" /\ Boot[12] = "up"
BY DEF Boot

LEMMA WhereUp == ASSUME boot \in 1..Len(Boot) PROVE Up <=> boot = 12
BY BootSteps DEF Up, At

LEMMA NoValue == "absent" \notin Values /\ "none" \notin Values
BY DEF Values, Texts, Numerals, Colours, Addresses

LEMMA Defaults ==
    /\ \A k \in Keys : Default[k] \in Values
    /\ DOMAIN Fallback = {"in_pro_type", "out_pro_type", "serial_baurate", "in_tcp_ip"}
    /\ \A k \in DOMAIN Fallback : Fallback[k] \in Values /\ FallbackValue(k) \in Values
    /\ \A k \in DOMAIN Fallback : k \in Keys /\ FallbackKey(k) \in Keys
<1>1. \A k \in Keys : Default[k] \in Values
  <2>1. /\ Default["in_pro_type"] = "uart" /\ Default["out_pro_type"] = "bluetooth"
        /\ Default["serial_baurate"] = "key address" /\ Default["in_tcp_ip"] = "10.33.3.4"
        /\ Default["w_ap_ssid"] = "" /\ Default["w_ap_pass"] = ""
        /\ Default["w_ap_color"] = "black/55" /\ Default["w_ap_gw"] = "192.168.4.1"
    BY DEF Default
  <2>2. {"uart", "bluetooth", "key address", "10.33.3.4", "", "black/55", "192.168.4.1"} \subseteq Values
    BY DEF Values, Texts, Numerals, Colours, Addresses
  <2> QED
    BY <2>1, <2>2 DEF Keys
<1>2. DOMAIN Fallback = {"in_pro_type", "out_pro_type", "serial_baurate", "in_tcp_ip"}
  BY DEF Fallback
<1>3. \A k \in DOMAIN Fallback : Fallback[k] \in Values /\ FallbackValue(k) \in Values
  <2>1. /\ Fallback["in_pro_type"] = "uart" /\ Fallback["out_pro_type"] = "bluetooth"
        /\ Fallback["serial_baurate"] = "115200" /\ Fallback["in_tcp_ip"] = "10.33.3.4"
    BY DEF Fallback
  <2>2. {"uart", "bluetooth", "115200", "10.33.3.4", "pointer"} \subseteq Values
    BY DEF Values, Texts, Numerals, Colours, Addresses
  <2> QED
    BY <1>2, <2>1, <2>2 DEF FallbackValue
<1>4. \A k \in DOMAIN Fallback : k \in Keys /\ FallbackKey(k) \in Keys
  BY <1>2 DEF FallbackKey, Keys
<1> QED
  BY <1>1, <1>2, <1>3, <1>4

LEMMA ReadValue ==
    ASSUME StoreTypes, NEW k \in Keys
    PROVE  Read(k) \in Values
BY Defaults DEF StoreTypes, Read

(* An entry is stored as a value, or not at all.                           *)
LEMMA OutcomeValue ==
    ASSUME NEW k \in Keys, NEW e \in Entries
    PROVE  Outcome(k, e) \in Values \cup {"skipped", "refused", "crash"}
<1>1. {e.text, "0", "bluetooth", "black", "white/55", "0.0.0.0"} \subseteq Values
  BY DEF Entries, Values, Texts, Numerals, Colours, Addresses
<1>2. Whole(e.text) \in Values /\ Narrow(Whole(e.text)) \in Values
  BY <1>1 DEF Whole, Narrow
<1>3. /\ NumberOf(k, e.text) \in Values \cup {"refused"}
      /\ ColourOf(e.text) \in Values \cup {"refused"}
      /\ AddressOf(e) \in Values \cup {"refused", "crash"}
  BY <1>1, <1>2 DEF NumberOf, ColourOf, AddressOf
<1> QED
  BY <1>1, <1>3 DEF Outcome

(* The items that are left have a first one.                               *)
LEMMA FirstIsOf ==
    ASSUME NEW S \in SUBSET Keys, S # {}
    PROVE  FirstOf(S) \in S
<1> DEFINE P(i) == ItemOrder[i] \in S /\ \A j \in 1..i - 1 : ItemOrder[j] \notin S
<1>1. DOMAIN ItemOrder = 1..8
  BY DEF ItemOrder
<1>2. \A k \in Keys : \E i \in 1..8 : ItemOrder[i] = k
  BY DEF Keys, ItemOrder
<1>3. \E i \in 1..8 : ItemOrder[i] \in S
  BY <1>2
<1>4. \E i \in 1..8 : P(i)
  BY <1>3
<1>5. FirstOf(S) = ItemOrder[CHOOSE i \in 1..8 : P(i)]
  BY <1>1 DEF FirstOf
<1> QED
  BY <1>4, <1>5

(* What a set of one item leaves of the storage.                           *)
LEMMA SetTypes ==
    ASSUME StoreTypes, NEW k \in Keys, NEW v \in Values, Set(k, v)
    PROVE  /\ StoreTypes' /\ nvs'[k] = v
           /\ \A o \in Keys \ {k} : nvs'[o] = nvs[o] /\ maybe'[o] = maybe[o]
BY DEF StoreTypes, Set

LEMMA RestartTypes ==
    ASSUME StoreTypes, Restart
    PROVE  /\ StoreTypes' /\ BootTypes' /\ HttpTypes' /\ pending' = FALSE
           /\ \A k \in Keys : nvs'[k] \in maybe[k] /\ maybe'[k] = {nvs'[k]}
           /\ boot' = 1 /\ http'.pc = "idle" /\ http'.set = {}
<1>1. PICK found \in [Unsettled -> UNION {maybe[k] : k \in Unsettled}] :
          /\ \A k \in Unsettled : found[k] \in maybe[k]
          /\ nvs' = [k \in Keys |-> IF k \in Unsettled THEN found[k] ELSE nvs[k]]
  BY DEF Restart
<1>2. \A k \in Keys : nvs'[k] \in maybe[k]
  BY <1>1 DEF StoreTypes
<1>3. maybe' = [k \in Keys |-> {nvs'[k]}]
  BY DEF Restart
<1>4. \A k \in Keys : nvs'[k] \in Values \cup {"absent"}
  BY <1>2 DEF StoreTypes
<1>5. nvs' \in [Keys -> Values \cup {"absent"}]
  BY <1>1, <1>4
<1>6. maybe' \in [Keys -> SUBSET (Values \cup {"absent"})]
  BY <1>3, <1>4
<1>7. \A k \in Keys : maybe'[k] = {nvs'[k]}
  BY <1>3
<1>8. StoreTypes'
  BY <1>5, <1>6, <1>7 DEF StoreTypes
<1>9. BootTypes'
  <2>1. boot' = 1 /\ board' = [k \in Keys |-> "0"] /\ driver' = "none" /\ "0" \in Values
    BY DEF Restart, Values, Texts, Numerals, Colours, Addresses
  <2> QED
    BY <2>1, BootSteps DEF BootTypes
<1>10. HttpTypes' /\ http'.pc = "idle" /\ http'.set = {}
  <2>1. http' = [pc |-> "idle", left |-> {}, sent |-> <<>>, set |-> {}]
    BY DEF Restart
  <2> QED
    BY <2>1 DEF HttpTypes
<1> QED
  BY <1>2, <1>7, <1>8, <1>9, <1>10 DEF Restart
-----------------------------------------------------------------------------
(* What each step of the main task and of the request does.                *)

LEMMA BootStep ==
    ASSUME TypeOK, Main
    PROVE  StoreTypes' /\ BootTypes' /\ boot < 12 /\ boot' = boot + 1
<1>1. ASSUME NEW k \in DOMAIN Fallback, GetDataInput(k)
      PROVE  StoreTypes' /\ BootTypes' /\ boot < 12 /\ boot' = boot + 1
  <2>1. boot' = boot + 1 /\ driver' = driver /\ At(k)
    BY <1>1 DEF GetDataInput
  <2>2. boot < 12
    BY <2>1, BootSteps, Defaults DEF At, TypeOK, BootTypes
  <2>3. Read(k) \in Values
    BY Defaults, ReadValue DEF TypeOK
  <2>4. CASE Read(k) \in Blank
    <3>1. /\ board' = [board EXCEPT ![k] = Fallback[k]]
          /\ Set(FallbackKey(k), FallbackValue(k)) \/ UNCHANGED store
      BY <1>1, <2>4 DEF GetDataInput
    <3>2. StoreTypes'
      BY <3>1, SetTypes, Defaults DEF TypeOK, StoreTypes, store
    <3>3. board' \in [Keys -> Values]
      BY <3>1, Defaults DEF TypeOK, BootTypes
    <3> QED
      BY <2>1, <2>2, <3>2, <3>3, BootSteps DEF TypeOK, BootTypes
  <2>5. CASE Read(k) \notin Blank
    <3>1. board' = [board EXCEPT ![k] = Read(k)] /\ UNCHANGED store
      BY <1>1, <2>5 DEF GetDataInput
    <3>2. StoreTypes'
      BY <3>1 DEF TypeOK, StoreTypes, store
    <3>3. board' \in [Keys -> Values]
      BY <3>1, <2>3 DEF TypeOK, BootTypes
    <3> QED
      BY <2>1, <2>2, <3>2, <3>3, BootSteps DEF TypeOK, BootTypes
  <2> QED
    BY <2>4, <2>5
<1>2. ASSUME UartInit PROVE StoreTypes' /\ BootTypes' /\ boot < 12 /\ boot' = boot + 1
  <2>1. /\ At("uart_init") /\ boot' = boot + 1 /\ board' = board /\ UNCHANGED store
        /\ driver' = IF board["in_pro_type"] \in Ports THEN board["in_pro_type"] ELSE "none"
    BY <1>2 DEF UartInit
  <2>2. boot < 12
    BY <2>1, BootSteps DEF At, TypeOK, BootTypes
  <2>3. driver' \in Ports \cup {"none"}
    BY <2>1
  <2> QED
    BY <2>1, <2>2, <2>3, BootSteps DEF TypeOK, BootTypes, StoreTypes, store
<1>3. ASSUME WifiInit PROVE StoreTypes' /\ BootTypes' /\ boot < 12 /\ boot' = boot + 1
  <2>1. At("wifi_init") /\ boot' = boot + 1 /\ driver' = driver
    BY <1>3 DEF WifiInit
  <2>2. boot < 12
    BY <2>1, BootSteps DEF At, TypeOK, BootTypes
  <2>3. "w_ap_ssid" \in Keys /\ "ESP_BRIDGE" \in Values /\ "" \in Values
    BY DEF Keys, Values, Texts, Numerals, Colours, Addresses
  <2>4. CASE Read("w_ap_ssid") = ""
    <3>1. /\ Set("w_ap_ssid", "ESP_BRIDGE") \/ UNCHANGED store
          /\ board' = [board EXCEPT !["w_ap_ssid"] = "ESP_BRIDGE"]
      BY <1>3, <2>4 DEF WifiInit
    <3>2. StoreTypes'
      BY <3>1, <2>3, SetTypes DEF TypeOK, StoreTypes, store
    <3>3. board' \in [Keys -> Values]
      BY <2>3, <3>1 DEF TypeOK, BootTypes
    <3> QED
      BY <2>1, <2>2, <3>2, <3>3, BootSteps DEF TypeOK, BootTypes
  <2>5. CASE Read("w_ap_ssid") # ""
    <3>1. \E name \in {"", Read("w_ap_ssid")} : board' = [board EXCEPT !["w_ap_ssid"] = name]
      BY <1>3, <2>5 DEF WifiInit
    <3>2. UNCHANGED store
      BY <1>3, <2>5 DEF WifiInit
    <3>3. StoreTypes'
      BY <3>2 DEF TypeOK, StoreTypes, store
    <3>4. Read("w_ap_ssid") \in Values
      BY <2>3, ReadValue DEF TypeOK
    <3>5. board' \in [Keys -> Values]
      BY <2>3, <3>1, <3>4 DEF TypeOK, BootTypes
    <3> QED
      BY <2>1, <2>2, <3>3, <3>5, BootSteps DEF TypeOK, BootTypes
  <2> QED
    BY <2>4, <2>5
<1>4. ASSUME WebServerStart PROVE StoreTypes' /\ BootTypes' /\ boot < 12 /\ boot' = boot + 1
  <2>1. /\ At("web_server_start") /\ boot' = boot + 1 /\ driver' = driver /\ UNCHANGED store
        /\ board' = [k \in Keys |-> IF k \in DOMAIN Fallback THEN Read(k) ELSE board[k]]
    BY <1>4 DEF WebServerStart
  <2>2. boot < 12
    BY <2>1, BootSteps DEF At, TypeOK, BootTypes
  <2>3. board' \in [Keys -> Values]
    BY <2>1, ReadValue DEF TypeOK, BootTypes
  <2> QED
    BY <2>1, <2>2, <2>3, BootSteps DEF TypeOK, BootTypes, StoreTypes, store
<1> QED
  BY <1>1, <1>2, <1>3, <1>4 DEF Main

(* What is stored is text, as what is sent is, and an address for one.     *)
LEMMA OutcomeStorable ==
    ASSUME NEW k \in Keys, NEW e \in Entries, e.text # "pointer",
           Outcome(k, e) \notin {"skipped", "refused", "crash"}
    PROVE  Storable(k, Outcome(k, e))
<1>1. Whole(e.text) # "pointer" /\ Narrow(Whole(e.text)) # "pointer"
  BY DEF Whole, Narrow
<1>2. /\ NumberOf(k, e.text) # "pointer" /\ ColourOf(e.text) # "pointer"
      /\ AddressOf(e) \in Addresses \cup {"refused", "crash"}
  BY <1>1 DEF NumberOf, ColourOf, AddressOf, Addresses
<1>3. "pointer" \notin Addresses
  BY DEF Addresses
<1>4. Outcome(k, e) # "pointer"
  BY <1>2, <1>3 DEF Outcome
<1>5. k = "w_ap_gw" => Outcome(k, e) \in Addresses
  BY <1>2 DEF Outcome
<1>. QED
  BY <1>4, <1>5 DEF Storable

(* The four outcomes of an item.                                           *)
LEMMA Stored ==
    ASSUME TypeOK, ConfigurationAssumption, StoreItem
    PROVE  \E k \in Keys :
              \/ /\ http' = [http EXCEPT !.left = @ \ {k}]
                 /\ UNCHANGED <<store, boot, board, driver, pending, history>>
              \/ Restart /\ UNCHANGED history
              \/ \E v \in Values :
                    /\ Set(k, v) /\ k \in http.left /\ Storable(k, v)
                    /\ http' = [http EXCEPT !.left = @ \ {k}, !.set = @ \cup {k}]
                    /\ accepted' = [accepted EXCEPT ![k] = "none"]
                    /\ UNCHANGED <<boot, board, driver, pending, losses, misfiled, scarce>>
<1> DEFINE k    == FirstOf(http.left)
           what == Outcome(k, http.sent[k])
           rest == [http EXCEPT !.left = @ \ {k}]
<1>1. http.left # {} /\ http.left \in SUBSET Keys /\ http.pc = "items"
  BY DEF StoreItem, TypeOK, HttpTypes
<1>2. k \in http.left /\ k \in Keys
  BY <1>1, FirstIsOf
<1>3. http.sent \in Forms /\ k \in DOMAIN http.sent
  <2>1. k \in DOMAIN http.sent /\ http.sent \in Forms \cup {<<>>}
    BY <1>2 DEF TypeOK, HttpTypes
  <2>2. DOMAIN <<>> = {}
    OBVIOUS
  <2>3. http.sent # <<>>
    BY <2>1, <2>2
  <2> QED
    BY <2>1, <2>3
<1>4. http.sent[k] \in Entries /\ http.sent[k].text # "pointer"
  <2>1. http.sent[k] \in Sendable(k)
    BY <1>3 DEF ConfigurationAssumption
  <2> QED
    BY <2>1 DEF Sendable
<1>5. /\ what \in Values \cup {"skipped", "refused", "crash"}
      /\ what \notin {"skipped", "refused", "crash"} => Storable(k, what)
  BY <1>2, <1>4, OutcomeValue, OutcomeStorable
<1>6. \/ http' = rest /\ UNCHANGED <<store, boot, board, driver, pending, history>>
      \/ Restart /\ UNCHANGED history
      \/ /\ what \notin {"skipped", "refused", "crash"}
         /\ Set(k, what)
         /\ http' = [rest EXCEPT !.set = @ \cup {k}]
         /\ accepted' = [accepted EXCEPT ![k] = "none"]
         /\ UNCHANGED <<boot, board, driver, pending, losses, misfiled, scarce>>
  BY DEF StoreItem
<1> HIDE DEF k, what
<1>7. CASE http' = rest /\ UNCHANGED <<store, boot, board, driver, pending, history>>
  BY <1>7, <1>2
<1>8. CASE Restart /\ UNCHANGED history
  BY <1>8, <1>2
<1>9. CASE /\ what \notin {"skipped", "refused", "crash"}
           /\ Set(k, what)
           /\ http' = [rest EXCEPT !.set = @ \cup {k}]
           /\ accepted' = [accepted EXCEPT ![k] = "none"]
           /\ UNCHANGED <<boot, board, driver, pending, losses, misfiled, scarce>>
  <2>1. what \in Values /\ Storable(k, what)
    BY <1>5, <1>9
  <2>2. http' = [http EXCEPT !.left = @ \ {k}, !.set = @ \cup {k}]
    BY <1>9 DEF TypeOK, HttpTypes
  <2> QED
    BY <1>2, <1>9, <2>1, <2>2
<1> QED
  BY <1>6, <1>7, <1>8, <1>9
-----------------------------------------------------------------------------
(* Types and requests.                                                     *)

LEMMA MainLeaves ==
    ASSUME TypeOK, Main
    PROVE  /\ UNCHANGED <<http, pending, losses, accepted, scarce>>
           /\ misfiled' \in BOOLEAN /\ (misfiled => misfiled')
<1>1. ASSUME NEW k \in DOMAIN Fallback, GetDataInput(k)
      PROVE  /\ UNCHANGED <<http, pending, losses, accepted, scarce>>
             /\ misfiled' \in BOOLEAN /\ (misfiled => misfiled')
  <2>1. UNCHANGED <<http, pending, losses, accepted, scarce>>
    BY <1>1 DEF GetDataInput
  <2>2. misfiled' \in {misfiled, misfiled \/ k = "out_pro_type"}
    BY <1>1 DEF GetDataInput
  <2> QED
    BY <2>1, <2>2 DEF TypeOK, HistoryTypes
<1> QED
  BY <1>1 DEF Main, UartInit, WifiInit, WebServerStart, history, TypeOK, HistoryTypes

LEMMA TypeStep ==
    ASSUME ConfigurationAssumption, TypeOK, RequestInv, [Next]_vars
    PROVE  TypeOK'
<1>1. CASE Main
  <2>1. HttpTypes' /\ HistoryTypes'
    BY <1>1, MainLeaves DEF TypeOK, HttpTypes, HistoryTypes
  <2> QED
    BY <1>1, <2>1, BootStep DEF TypeOK
<1>2. ASSUME NEW form \in Forms, Post(form) PROVE TypeOK'
  <2>1. PICK got \in {DOMAIN form, {}} : http' = [pc |-> "items", left |-> got, sent |-> form, set |-> {}]
    BY <1>2 DEF Post
  <2>2. got \in SUBSET Keys /\ got \subseteq DOMAIN form
    BY <2>1 DEF ConfigurationAssumption
  <2>3. HttpTypes'
    BY <2>1, <2>2 DEF HttpTypes
  <2>4. UNCHANGED <<store, boot, board, driver, pending, history>>
    BY <1>2 DEF Post
  <2> QED
    BY <2>3, <2>4 DEF TypeOK, StoreTypes, BootTypes, HistoryTypes, store, history
<1>3. CASE StoreItem
  <2>1. PICK k \in Keys :
              \/ /\ http' = [http EXCEPT !.left = @ \ {k}]
                 /\ UNCHANGED <<store, boot, board, driver, pending, history>>
              \/ Restart /\ UNCHANGED history
              \/ \E v \in Values :
                    /\ Set(k, v) /\ k \in http.left
                    /\ http' = [http EXCEPT !.left = @ \ {k}, !.set = @ \cup {k}]
                    /\ accepted' = [accepted EXCEPT ![k] = "none"]
                    /\ UNCHANGED <<boot, board, driver, pending, losses, misfiled, scarce>>
    BY <1>3, Stored
  <2>2. CASE /\ http' = [http EXCEPT !.left = @ \ {k}]
             /\ UNCHANGED <<store, boot, board, driver, pending, history>>
    <3>1. HttpTypes'
      BY <2>2 DEF TypeOK, HttpTypes
    <3> QED
      BY <2>2, <3>1 DEF TypeOK, StoreTypes, BootTypes, HistoryTypes, store, history
  <2>3. CASE Restart /\ UNCHANGED history
    BY <2>3, RestartTypes DEF TypeOK, HistoryTypes, history
  <2>4. ASSUME NEW v \in Values, Set(k, v), k \in http.left,
               http' = [http EXCEPT !.left = @ \ {k}, !.set = @ \cup {k}],
               accepted' = [accepted EXCEPT ![k] = "none"],
               UNCHANGED <<boot, board, driver, pending, losses, misfiled, scarce>>
        PROVE  TypeOK'
    <3>1. HttpTypes'
      BY <2>4 DEF TypeOK, HttpTypes
    <3>2. StoreTypes'
      BY <2>4, SetTypes DEF TypeOK
    <3>3. BootTypes' /\ HistoryTypes'
      BY <2>4 DEF TypeOK, BootTypes, HistoryTypes
    <3> QED
      BY <3>1, <3>2, <3>3 DEF TypeOK
  <2> QED
    BY <2>1, <2>2, <2>3, <2>4
<1>4. CASE Commit
  <2>1. /\ maybe' = [k \in Keys |-> {nvs[k]}] /\ nvs' = nvs /\ http' = [http EXCEPT !.pc = "restart"]
        /\ UNCHANGED <<boot, board, driver, pending, history>>
    BY <1>4 DEF Commit
  <2>2. StoreTypes'
    BY <2>1 DEF TypeOK, StoreTypes
  <2>3. HttpTypes'
    BY <2>1 DEF TypeOK, HttpTypes
  <2> QED
    BY <2>1, <2>2, <2>3 DEF TypeOK, BootTypes, HistoryTypes, history
<1>5. CASE ConfigRestart
  <2>1. /\ http' = [http EXCEPT !.pc = "answer"] /\ pending' \in {pending, TRUE}
        /\ UNCHANGED <<store, boot, board, driver, history>>
    BY <1>5 DEF ConfigRestart
  <2>2. HttpTypes'
    BY <2>1 DEF TypeOK, HttpTypes
  <2> QED
    BY <2>1, <2>2 DEF TypeOK, StoreTypes, BootTypes, HistoryTypes, store, history
<1>6. CASE Answer
  <2>1. /\ http' = [http EXCEPT !.pc = "idle"]
        /\ accepted' = [k \in Keys |-> IF k \in http.set THEN nvs[k] ELSE accepted[k]]
        /\ misfiled' = (misfiled /\ "in_pro_type" \notin http.set)
        /\ UNCHANGED <<store, boot, board, driver, pending, losses, scarce>>
    BY <1>6 DEF Answer
  <2>2. HttpTypes'
    BY <2>1 DEF TypeOK, HttpTypes
  <2>3. \A k \in http.set : nvs[k] \in Values
    BY DEF TypeOK, StoreTypes, HttpTypes, RequestInv
  <2>4. accepted' \in [Keys -> Values \cup {"none"}]
    BY <2>1, <2>3 DEF TypeOK, HistoryTypes
  <2>5. misfiled' \in BOOLEAN
    BY <2>1
  <2> QED
    BY <2>1, <2>2, <2>4, <2>5 DEF TypeOK, StoreTypes, BootTypes, HistoryTypes, store
<1>7. CASE RestartTask
  BY <1>7, RestartTypes DEF RestartTask, TypeOK, HistoryTypes, history
<1>8. CASE PowerLoss
  BY <1>8, RestartTypes DEF PowerLoss, TypeOK, HistoryTypes, ConfigurationAssumption
<1>9. CASE UNCHANGED vars
  BY <1>9 DEF vars, TypeOK, StoreTypes, BootTypes, HttpTypes, HistoryTypes
<1> QED
  BY <1>1, <1>2, <1>3, <1>4, <1>5, <1>6, <1>7, <1>8, <1>9 DEF Next, Http
-----------------------------------------------------------------------------
(* What is accepted is kept.                                               *)

(* The boot writes an item that is blank, or the input under its output.   *)
LEMMA BootWrites ==
    ASSUME TypeOK, Main
    PROVE  \A k \in Keys :
              \/ nvs'[k] = nvs[k] /\ maybe'[k] = maybe[k]
              \/ Read(k) \in Blank
              \/ k = "in_pro_type" /\ misfiled'
<1> DEFINE Goal ==
              \A k \in Keys :
                  \/ nvs'[k] = nvs[k] /\ maybe'[k] = maybe[k]
                  \/ Read(k) \in Blank
                  \/ k = "in_pro_type" /\ misfiled'
<1>1. ASSUME NEW k \in DOMAIN Fallback, GetDataInput(k) PROVE Goal
  <2>1. CASE Read(k) \in Blank
    <3>1. CASE UNCHANGED store
      BY <3>1 DEF store
    <3>2. CASE /\ Set(FallbackKey(k), FallbackValue(k))
               /\ misfiled' = (misfiled \/ k = "out_pro_type")
      <4>1. \A o \in Keys \ {FallbackKey(k)} : nvs'[o] = nvs[o] /\ maybe'[o] = maybe[o]
        BY <3>2, SetTypes, Defaults DEF TypeOK
      <4>2. FallbackKey(k) = k \/ (FallbackKey(k) = "in_pro_type" /\ misfiled')
        BY <3>2 DEF FallbackKey
      <4> QED
        BY <2>1, <4>1, <4>2
    <3> QED
      BY <1>1, <2>1, <3>1, <3>2 DEF GetDataInput
  <2>2. CASE Read(k) \notin Blank
    BY <1>1, <2>2 DEF GetDataInput, store
  <2> QED
    BY <2>1, <2>2
<1>2. CASE WifiInit
  <2>1. CASE Read("w_ap_ssid") = ""
    <3>1. Set("w_ap_ssid", "ESP_BRIDGE") \/ UNCHANGED store
      BY <1>2, <2>1 DEF WifiInit
    <3>2. "w_ap_ssid" \in Keys /\ "ESP_BRIDGE" \in Values
      BY DEF Keys, Values, Texts, Numerals, Colours, Addresses
    <3>3. \A o \in Keys \ {"w_ap_ssid"} : nvs'[o] = nvs[o] /\ maybe'[o] = maybe[o]
      BY <3>1, <3>2, SetTypes DEF TypeOK, store
    <3> QED
      BY <2>1, <3>3 DEF Blank
  <2>2. CASE Read("w_ap_ssid") # ""
    BY <1>2, <2>2 DEF WifiInit, store
  <2> QED
    BY <2>1, <2>2
<1>3. CASE UartInit \/ WebServerStart
  BY <1>3 DEF UartInit, WebServerStart, store
<1> QED
  BY <1>1, <1>2, <1>3 DEF Main

LEMMA MainSets ==
    ASSUME TypeOK, Main
    PROVE  \A k \in Keys : nvs'[k] # nvs[k] => nvs'[k] # "absent"
<1>1. ASSUME NEW k \in DOMAIN Fallback, GetDataInput(k)
      PROVE  \A o \in Keys : nvs'[o] # nvs[o] => nvs'[o] # "absent"
  <2>1. \/ Set(FallbackKey(k), FallbackValue(k))
        \/ UNCHANGED store
    BY <1>1 DEF GetDataInput
  <2> QED
    BY <2>1, SetTypes, Defaults, NoValue DEF TypeOK, store
<1>2. CASE WifiInit
  <2>1. Set("w_ap_ssid", "ESP_BRIDGE") \/ UNCHANGED store
    BY <1>2 DEF WifiInit
  <2>2. "w_ap_ssid" \in Keys /\ "ESP_BRIDGE" \in Values
    BY DEF Keys, Values, Texts, Numerals, Colours, Addresses
  <2> QED
    BY <2>1, <2>2, SetTypes, NoValue DEF TypeOK, store
<1>3. CASE UartInit \/ WebServerStart
  BY <1>3 DEF UartInit, WebServerStart, store
<1> QED
  BY <1>1, <1>2, <1>3 DEF Main

(* A restart finds the one value that a kept item can have.                *)
LEMMA RestartKeeps ==
    ASSUME TypeOK, AcceptedIsKept, Restart, accepted' = accepted, misfiled' = misfiled
    PROVE  RequestInv' /\ AcceptedIsKept'
<1>1. /\ \A k \in Keys : nvs'[k] \in maybe[k] /\ maybe'[k] = {nvs'[k]}
      /\ http'.pc = "idle" /\ http'.set = {}
  BY RestartTypes DEF TypeOK
<1> QED
  BY <1>1 DEF RequestInv, AcceptedIsKept

LEMMA KeptStep ==
    ASSUME ConfigurationAssumption, TypeOK, RequestInv, AcceptedIsKept, [Next]_vars
    PROVE  RequestInv' /\ AcceptedIsKept'
<1>0. http.pc = "idle" \/ boot = 12
  BY WhereUp DEF RequestInv, TypeOK, BootTypes
<1>00. TypeOK'
  BY TypeStep
<1>1. CASE Main
  <2>1. http.pc = "idle"
    BY <1>0, <1>1, BootStep
  <2>2. http' = http /\ accepted' = accepted /\ (misfiled => misfiled')
    BY <1>1, MainLeaves
  <2>3. \A k \in Keys : nvs'[k] # nvs[k] => nvs'[k] # "absent"
    BY <1>1, MainSets
  <2>4. RequestInv'
    BY <2>1, <2>2, <2>3 DEF RequestInv, TypeOK, HttpTypes
  <2>5. AcceptedIsKept'
    <3> SUFFICES ASSUME NEW k \in Keys, accepted'[k] \notin Blank \cup {"none"},
                        ~(k = "in_pro_type" /\ misfiled')
                 PROVE  nvs'[k] = accepted'[k] /\ maybe'[k] = {accepted'[k]}
      BY DEF AcceptedIsKept
    <3>1. nvs[k] = accepted[k] /\ maybe[k] = {accepted[k]}
      BY <2>2 DEF AcceptedIsKept
    <3>2. nvs[k] # "absent"
      BY <2>2, <3>1, NoValue DEF TypeOK, HistoryTypes
    <3>3. Read(k) \notin Blank
      BY <2>2, <3>1, <3>2 DEF Read
    <3> QED
      BY <1>1, <2>2, <3>1, <3>3, BootWrites
  <2> QED
    BY <2>4, <2>5
<1>2. ASSUME NEW form \in Forms, Post(form) PROVE RequestInv' /\ AcceptedIsKept'
  <2>1. Up /\ UNCHANGED <<store, boot, history>> /\ http'.pc = "items" /\ http'.set = {}
    BY <1>2 DEF Post
  <2> QED
    BY <2>1 DEF RequestInv, AcceptedIsKept, Up, At, store, history
<1>3. CASE StoreItem
  <2>1. http.pc = "items"
    BY <1>3 DEF StoreItem
  <2>2. PICK k \in Keys :
              \/ /\ http' = [http EXCEPT !.left = @ \ {k}]
                 /\ UNCHANGED <<store, boot, board, driver, pending, history>>
              \/ Restart /\ UNCHANGED history
              \/ \E v \in Values :
                    /\ Set(k, v) /\ k \in http.left
                    /\ http' = [http EXCEPT !.left = @ \ {k}, !.set = @ \cup {k}]
                    /\ accepted' = [accepted EXCEPT ![k] = "none"]
                    /\ UNCHANGED <<boot, board, driver, pending, losses, misfiled, scarce>>
    BY <1>3, Stored
  <2>3. CASE /\ http' = [http EXCEPT !.left = @ \ {k}]
             /\ UNCHANGED <<store, boot, board, driver, pending, history>>
    <3>1. http'.pc = http.pc /\ http'.set = http.set
      BY <2>3 DEF TypeOK, HttpTypes
    <3> QED
      BY <2>1, <2>3, <3>1 DEF RequestInv, AcceptedIsKept, Up, At, store, history
  <2>4. CASE Restart /\ UNCHANGED history
    BY <2>4, RestartKeeps DEF history
  <2>5. ASSUME NEW v \in Values, Set(k, v), k \in http.left,
               http' = [http EXCEPT !.left = @ \ {k}, !.set = @ \cup {k}],
               accepted' = [accepted EXCEPT ![k] = "none"],
               UNCHANGED <<boot, board, driver, pending, losses, misfiled, scarce>>
        PROVE  RequestInv' /\ AcceptedIsKept'
    <3>1. http'.pc = "items" /\ http'.set = http.set \cup {k} /\ http.set \subseteq Keys
      BY <2>1, <2>5 DEF TypeOK, HttpTypes
    <3>2. nvs'[k] = v /\ \A o \in Keys \ {k} : nvs'[o] = nvs[o] /\ maybe'[o] = maybe[o]
      BY <2>5, SetTypes DEF TypeOK
    <3>3. RequestInv'
      BY <2>1, <2>5, <3>1, <3>2, NoValue DEF RequestInv, Up, At
    <3>4. accepted'[k] = "none" /\ \A o \in Keys \ {k} : accepted'[o] = accepted[o]
      BY <2>5 DEF TypeOK, HistoryTypes
    <3>5. AcceptedIsKept'
      BY <2>5, <3>2, <3>4 DEF AcceptedIsKept
    <3> QED
      BY <3>3, <3>5
  <2> QED
    BY <2>2, <2>3, <2>4, <2>5
<1>4. CASE Commit
  <2>1. /\ maybe' = [k \in Keys |-> {nvs[k]}] /\ nvs' = nvs /\ http.pc = "items"
        /\ http' = [http EXCEPT !.pc = "restart"] /\ UNCHANGED <<boot, history>>
    BY <1>4 DEF Commit
  <2>2. http'.pc = "restart" /\ http'.set = http.set
    BY <2>1 DEF TypeOK, HttpTypes
  <2>3. \A k \in Keys : maybe'[k] = {nvs'[k]}
    BY <2>1
  <2> QED
    BY <2>1, <2>2, <2>3 DEF RequestInv, AcceptedIsKept, Up, At, history
<1>5. CASE ConfigRestart
  <2>1. /\ http' = [http EXCEPT !.pc = "answer"] /\ http.pc = "restart"
        /\ UNCHANGED <<store, boot, history>>
    BY <1>5 DEF ConfigRestart
  <2>2. http'.pc = "answer" /\ http'.set = http.set
    BY <2>1 DEF TypeOK, HttpTypes
  <2> QED
    BY <2>1, <2>2 DEF RequestInv, AcceptedIsKept, Up, At, store, history
<1>6. CASE Answer
  <2>1. /\ http' = [http EXCEPT !.pc = "idle"] /\ http.pc = "answer"
        /\ accepted' = [k \in Keys |-> IF k \in http.set THEN nvs[k] ELSE accepted[k]]
        /\ misfiled' = (misfiled /\ "in_pro_type" \notin http.set)
        /\ UNCHANGED <<store, boot>>
    BY <1>6 DEF Answer
  <2>2. http'.pc = "idle" /\ http'.set = http.set
    BY <2>1 DEF TypeOK, HttpTypes
  <2>3. RequestInv'
    BY <2>1, <2>2 DEF RequestInv, store
  <2>4. AcceptedIsKept'
    <3> SUFFICES ASSUME NEW k \in Keys, accepted'[k] \notin Blank \cup {"none"},
                        ~(k = "in_pro_type" /\ misfiled')
                 PROVE  nvs'[k] = accepted'[k] /\ maybe'[k] = {accepted'[k]}
      BY DEF AcceptedIsKept
    <3>1. CASE k \in http.set
      BY <2>1, <3>1 DEF RequestInv, store
    <3>2. CASE k \notin http.set
      BY <2>1, <3>2 DEF AcceptedIsKept, store
    <3> QED
      BY <3>1, <3>2
  <2> QED
    BY <2>3, <2>4
<1>7. CASE RestartTask
  BY <1>7, RestartKeeps DEF RestartTask, history
<1>8. CASE PowerLoss
  BY <1>8, RestartKeeps DEF PowerLoss
<1>9. CASE UNCHANGED vars
  BY <1>9 DEF vars, RequestInv, AcceptedIsKept, Up, At
<1> QED
  BY <1>1, <1>2, <1>3, <1>4, <1>5, <1>6, <1>7, <1>8, <1>9 DEF Next, Http
-----------------------------------------------------------------------------
(* The driver and the input.                                               *)

PortOf(b) == IF b \in Ports THEN b ELSE "none"

LEMMA KeysOfPorts == "in_pro_type" \in Keys /\ "out_pro_type" \in Keys
BY DEF Keys

(* Nothing but the step itself sets what it does not name.                 *)
LEMMA DataInput ==
    ASSUME TypeOK, NEW k \in DOMAIN Fallback, GetDataInput(k)
    PROVE  /\ Read("out_pro_type") = Read("out_pro_type")' /\ driver' = driver
           /\ k \notin {"in_pro_type", "out_pro_type"} =>
                /\ Read("in_pro_type")' = Read("in_pro_type")
                /\ board'["in_pro_type"] = board["in_pro_type"]
           /\ k = "out_pro_type" =>
                /\ board'["in_pro_type"] = board["in_pro_type"]
                /\ Read(k) \notin Blank => Read("in_pro_type")' = Read("in_pro_type")
           /\ k = "in_pro_type" =>
                /\ board'[k] = Effective(k)' /\ Effective(k)' = Effective(k)
                /\ Read(k)' \in Blank => scarce /\ scarce' = scarce
<1>0. k \in Keys /\ k \in DOMAIN Fallback /\ driver' = driver
  BY Defaults DEF GetDataInput
<1>1. ASSUME UNCHANGED store PROVE \A o \in Keys : Read(o)' = Read(o)
  BY <1>1 DEF Read, store
<1>2. k # "in_pro_type" => board'["in_pro_type"] = board["in_pro_type"]
  BY <1>0, KeysOfPorts DEF GetDataInput, TypeOK, BootTypes
<1>3. CASE Read(k) \in Blank /\ Set(FallbackKey(k), FallbackValue(k))
  <2>1. board' = [board EXCEPT ![k] = Fallback[k]]
    BY <1>3 DEF GetDataInput
  <2>2. /\ nvs'[FallbackKey(k)] = FallbackValue(k)
        /\ \A o \in Keys \ {FallbackKey(k)} : nvs'[o] = nvs[o]
    BY <1>3, SetTypes, Defaults DEF TypeOK
  <2>3. FallbackKey(k) # "out_pro_type" /\ (k # "out_pro_type" => FallbackKey(k) = k)
    BY DEF FallbackKey
  <2>4. Read("out_pro_type") = Read("out_pro_type")'
    BY <2>2, <2>3, KeysOfPorts DEF Read
  <2>5. board'[k] = Fallback[k]
    BY <1>0, <2>1 DEF TypeOK, BootTypes
  <2>6. CASE k = "in_pro_type"
    <3>1. FallbackValue(k) = "uart" /\ Fallback[k] = "uart"
      BY <2>6 DEF FallbackValue, String, Fallback
    <3>2. nvs'[k] = "uart"
      BY <2>2, <2>3, <2>6, <3>1
    <3>3. Read(k)' = "uart" /\ "uart" \notin Blank
      BY <3>2 DEF Read, Blank
    <3>4. Effective(k)' = "uart" /\ Effective(k) = "uart"
      BY <1>3, <3>1, <3>3 DEF Effective
    <3> QED
      BY <1>0, <2>4, <2>5, <2>6, <3>1, <3>3, <3>4
  <2>7. CASE k = "out_pro_type"
    BY <1>0, <1>2, <1>3, <2>4, <2>7
  <2>8. CASE k \notin {"in_pro_type", "out_pro_type"}
    <3>1. Read("in_pro_type")' = Read("in_pro_type")
      BY <2>2, <2>3, <2>8, KeysOfPorts DEF Read
    <3> QED
      BY <1>0, <1>2, <2>4, <2>8, <3>1
  <2> QED
    BY <2>6, <2>7, <2>8
<1>4. CASE Read(k) \in Blank /\ scarce /\ UNCHANGED store
  <2>1. board'[k] = Fallback[k] /\ scarce' = scarce
    BY <1>0, <1>4 DEF GetDataInput, TypeOK, BootTypes
  <2>2. Effective(k)' = Fallback[k] /\ Effective(k) = Fallback[k]
    BY <1>0, <1>1, <1>4 DEF Effective
  <2> QED
    BY <1>0, <1>1, <1>2, <1>4, <2>1, <2>2, KeysOfPorts
<1>5. CASE Read(k) \notin Blank
  <2>1. board'[k] = Read(k) /\ UNCHANGED store
    BY <1>0, <1>5 DEF GetDataInput, TypeOK, BootTypes
  <2>2. Effective(k)' = Read(k) /\ Effective(k) = Read(k)
    BY <1>0, <1>1, <1>5, <2>1 DEF Effective
  <2> QED
    BY <1>0, <1>1, <1>2, <1>5, <2>1, <2>2, KeysOfPorts
<1> QED
  BY <1>3, <1>4, <1>5 DEF GetDataInput

LEMMA DriverStep ==
    ASSUME ConfigurationAssumption, TypeOK, RequestInv, BootInv, DriverMatchesInput, [Next]_vars
    PROVE  BootInv' /\ DriverMatchesInput'
<1>0. TypeOK' /\ boot \in 1..12 /\ boot' \in 1..12 /\ (Up <=> boot = 12) /\ (Up' <=> boot' = 12)
  <2>1. TypeOK' /\ boot \in 1..12 /\ boot' \in 1..12
    BY TypeStep, BootSteps DEF TypeOK, BootTypes
  <2>2. Boot[boot] = "up" <=> boot = 12
    BY <2>1, BootSteps
  <2>3. Boot[boot'] = "up" <=> boot' = 12
    BY <2>1, BootSteps
  <2> QED
    BY <2>1, <2>2, <2>3 DEF Up, At
<1>1. ASSUME NEW k \in DOMAIN Fallback, GetDataInput(k) PROVE BootInv' /\ DriverMatchesInput'
  <2>1. Boot[boot] = k /\ boot' = boot + 1
    BY <1>1 DEF GetDataInput, At
  <2>2. /\ boot \in 1..9 /\ boot # 5
        /\ boot = 1 => k = "in_pro_type"
        /\ k # "in_pro_type" => boot > 1
    BY <1>0, <2>1, BootSteps, Defaults
  <2>3. ~Up /\ ~Up'
    BY <1>0, <2>1, <2>2
  <2>4. BootInv'
    <3> SUFFICES ASSUME Read("out_pro_type")' \notin Blank
                 PROVE  /\ board'["in_pro_type"] = Effective("in_pro_type")'
                        /\ Read("in_pro_type")' \in Blank => scarce'
                        /\ boot' > 5 => driver' = PortOf(board'["in_pro_type"])
      BY DEF BootInv, PortOf
    <3>1. Read("out_pro_type") \notin Blank
      BY <1>1, DataInput
    <3>2. CASE boot = 1
      BY <1>1, <2>1, <2>2, <3>2, DataInput
    <3>3. CASE boot > 1
      <4>1. /\ board["in_pro_type"] = Effective("in_pro_type")
            /\ Read("in_pro_type") \in Blank => scarce
            /\ boot > 5 => driver = PortOf(board["in_pro_type"])
        BY <2>3, <3>1, <3>3 DEF BootInv, PortOf
      <4>2. boot' > 5 => boot > 5
        BY <2>1, <2>2
      <4>3. driver' = driver /\ scarce' = scarce
        BY <1>1, DataInput DEF GetDataInput
      <4>4. CASE k = "in_pro_type"
        <5>1. /\ board'[k] = Effective(k)' /\ Effective(k)' = Effective(k)
              /\ Read(k)' \in Blank => scarce /\ scarce' = scarce
          BY <1>1, <4>4, DataInput
        <5> QED
          BY <4>1, <4>2, <4>3, <4>4, <5>1
      <4>5. CASE k # "in_pro_type"
        <5>1. /\ Read("in_pro_type")' = Read("in_pro_type")
              /\ board'["in_pro_type"] = board["in_pro_type"]
          BY <1>1, <3>1, <4>5, DataInput
        <5>2. Effective("in_pro_type")' = Effective("in_pro_type")
          BY <5>1 DEF Effective
        <5> QED
          BY <4>1, <4>2, <4>3, <5>1, <5>2
      <4> QED
        BY <4>4, <4>5
    <3> QED
      BY <2>2, <3>2, <3>3
  <2> QED
    BY <2>3, <2>4 DEF DriverMatchesInput
<1>2. CASE UartInit
  <2>1. /\ Boot[boot] = "uart_init" /\ boot' = boot + 1 /\ UNCHANGED <<store, board>>
        /\ driver' = PortOf(board["in_pro_type"])
    BY <1>2 DEF UartInit, At, PortOf
  <2>2. boot = 5
    BY <1>0, <2>1, BootSteps
  <2>3. \A k \in Keys : Read(k)' = Read(k)
    BY <2>1 DEF Read, store
  <2>4. BootInv'
    <3>1. scarce' = scarce /\ ~Up
      BY <1>0, <1>2, <2>2 DEF UartInit, history
    <3>2. Effective("in_pro_type")' = Effective("in_pro_type")
      BY <2>3, KeysOfPorts DEF Effective
    <3> QED
      BY <1>0, <2>1, <2>2, <2>3, <3>1, <3>2, KeysOfPorts DEF BootInv, PortOf
  <2> QED
    BY <1>0, <2>1, <2>2, <2>4 DEF DriverMatchesInput
<1>3. CASE WifiInit
  <2>1. Boot[boot] = "wifi_init" /\ boot' = boot + 1 /\ driver' = driver
    BY <1>3 DEF WifiInit, At
  <2>2. boot = 10
    BY <1>0, <2>1, BootSteps
  <2>3. /\ \/ Set("w_ap_ssid", "ESP_BRIDGE")
           \/ UNCHANGED store
        /\ board'["in_pro_type"] = board["in_pro_type"]
    BY <1>3, KeysOfPorts DEF WifiInit, TypeOK, BootTypes
  <2>4. nvs'["in_pro_type"] = nvs["in_pro_type"] /\ nvs'["out_pro_type"] = nvs["out_pro_type"]
    <3>1. "w_ap_ssid" \in Keys /\ "ESP_BRIDGE" \in Values
      BY DEF Keys, Values, Texts, Numerals, Colours, Addresses
    <3> QED
      BY <2>3, <3>1, SetTypes, KeysOfPorts DEF TypeOK, store
  <2>5. BootInv'
    <3>0. scarce' = scarce
      BY <1>3, MainLeaves DEF Main
    <3>1. scarce' = scarce /\ ~Up
      BY <1>0, <2>2, <3>0
    <3>2. Read("in_pro_type")' = Read("in_pro_type") /\ Read("out_pro_type")' = Read("out_pro_type")
      BY <2>4 DEF Read
    <3>3. Effective("in_pro_type")' = Effective("in_pro_type")
      BY <3>2 DEF Effective
    <3> QED
      BY <1>0, <2>1, <2>2, <2>3, <3>1, <3>2, <3>3 DEF BootInv
  <2> QED
    BY <1>0, <2>1, <2>2, <2>5 DEF DriverMatchesInput
<1>4. CASE WebServerStart
  <2>1. /\ Boot[boot] = "web_server_start" /\ boot' = boot + 1 /\ driver' = driver
        /\ board' = [k \in Keys |-> IF k \in DOMAIN Fallback THEN Read(k) ELSE board[k]]
    BY <1>4 DEF WebServerStart, At
  <2>2. boot = 11 /\ boot' = 12
    BY <1>0, <2>1, BootSteps
  <2>3. board'["in_pro_type"] = Read("in_pro_type") /\ board'["out_pro_type"] = Read("out_pro_type")
    BY <2>1, Defaults, KeysOfPorts
  <2>4. Read("out_pro_type") \notin Blank =>
            /\ board["in_pro_type"] = Effective("in_pro_type")
            /\ Read("in_pro_type") \in Blank => scarce
            /\ driver = PortOf(board["in_pro_type"])
    BY <1>0, <2>2 DEF BootInv, PortOf
  <2>5. DriverMatchesInput'
    <3> SUFFICES ASSUME board'["out_pro_type"] \notin Blank,
                        ~(scarce' /\ board'["in_pro_type"] \in Blank)
                 PROVE  driver' = PortOf(board'["in_pro_type"])
      BY DEF DriverMatchesInput, PortOf
    <3>1. scarce' = scarce
      BY <1>4 DEF WebServerStart, history
    <3>2. Read("in_pro_type") \notin Blank /\ board["in_pro_type"] = Effective("in_pro_type")
      BY <2>3, <2>4, <3>1
    <3>3. board["in_pro_type"] = Read("in_pro_type")
      BY <3>2 DEF Effective
    <3> QED
      BY <2>1, <2>3, <2>4, <3>3
  <2> QED
    BY <1>0, <2>2, <2>5 DEF BootInv
<1>5. CASE boot' = 1
  BY <1>0, <1>5 DEF BootInv, DriverMatchesInput
<1>6. CASE boot = 12 /\ UNCHANGED <<boot, board, driver, scarce>>
  BY <1>0, <1>6 DEF BootInv, DriverMatchesInput
<1>7. CASE UNCHANGED vars
  BY <1>7 DEF vars, BootInv, DriverMatchesInput, Effective, Read, Up, At
<1>8. ASSUME NEW form \in Forms, Post(form) PROVE boot = 12 /\ UNCHANGED <<boot, board, driver, scarce>>
  BY <1>0, <1>8 DEF Post, history
<1>9. CASE Commit \/ ConfigRestart \/ Answer
  <2>1. http.pc # "idle" /\ UNCHANGED <<boot, board, driver, scarce>>
    BY <1>9 DEF Commit, ConfigRestart, Answer, history
  <2> QED
    BY <1>0, <1>6, <2>1 DEF RequestInv
<1>10. CASE StoreItem
  <2>1. http.pc # "idle"
    BY <1>10 DEF StoreItem
  <2>2. boot' = 1 \/ UNCHANGED <<boot, board, driver, scarce>>
    BY <1>10, RestartTypes DEF StoreItem, TypeOK, history
  <2> QED
    BY <1>0, <1>5, <1>6, <2>1, <2>2 DEF RequestInv
<1>11. CASE RestartTask \/ PowerLoss
  BY <1>5, <1>11 DEF RestartTask, PowerLoss, Restart
<1> QED
  BY <1>1, <1>2, <1>3, <1>4, <1>6, <1>7, <1>8, <1>9, <1>10, <1>11 DEF Next, Main, Http

-----------------------------------------------------------------------------
(* The page and the form.                                                  *)

LEMMA SetStorable ==
    ASSUME StoreTypes, StorableInv, NEW k \in Keys, NEW v, Set(k, v), Storable(k, v)
    PROVE  StorableInv'
<1>1. maybe'[k] = maybe[k] \cup {v} /\ \A o \in Keys \ {k} : maybe'[o] = maybe[o]
  BY DEF Set, StoreTypes
<1>. SUFFICES ASSUME NEW o \in Keys, NEW w \in maybe'[o] PROVE Storable(o, w)
  BY DEF StorableInv, Storable
<1>. QED
  BY <1>1 DEF StorableInv

LEMMA RestartStorable ==
    ASSUME StoreTypes, StorableInv, Restart
    PROVE  StorableInv'
<1>. SUFFICES ASSUME NEW o \in Keys, NEW w \in maybe'[o] PROVE Storable(o, w)
  BY DEF StorableInv, Storable
<1>1. w \in maybe[o]
  BY RestartTypes
<1>. QED
  BY <1>1 DEF StorableInv

(* What the boot stores for a blank item is text, but for the address.     *)
LEMMA FallbackStorable ==
    /\ \A k \in DOMAIN Fallback : Storable(FallbackKey(k), FallbackValue(k))
    /\ Storable("w_ap_ssid", "ESP_BRIDGE")
<1>1. /\ Fallback["in_pro_type"] = "uart" /\ Fallback["out_pro_type"] = "bluetooth"
      /\ Fallback["serial_baurate"] = "115200"
  BY DEF Fallback
<1>2. \A k \in DOMAIN Fallback : /\ FallbackValue(k) = "pointer" => FallbackKey(k) = "in_tcp_ip"
                                 /\ FallbackKey(k) # "w_ap_gw"
  BY <1>1, Defaults DEF FallbackValue, FallbackKey, String
<1>. QED
  BY <1>2 DEF Storable

LEMMA StorableStep ==
    ASSUME ConfigurationAssumption, TypeOK, StorableInv, [Next]_vars
    PROVE  StorableInv'
<1>0. StoreTypes
  BY DEF TypeOK
<1>1. ASSUME NEW k \in DOMAIN Fallback, GetDataInput(k) PROVE StorableInv'
  <2>1. Set(FallbackKey(k), FallbackValue(k)) \/ maybe' = maybe
    BY <1>1 DEF GetDataInput, store
  <2>. QED
    BY <1>0, <2>1, Defaults, FallbackStorable, SetStorable DEF StorableInv, Storable
<1>2. CASE WifiInit
  <2>1. Set("w_ap_ssid", "ESP_BRIDGE") \/ maybe' = maybe
    BY <1>2 DEF WifiInit, store
  <2>2. "w_ap_ssid" \in Keys
    BY DEF Keys
  <2>. QED
    BY <1>0, <2>1, <2>2, FallbackStorable, SetStorable DEF StorableInv, Storable
<1>3. CASE StoreItem
  <2>1. PICK k \in Keys : \/ maybe' = maybe
                          \/ Restart
                          \/ \E v \in Values : Set(k, v) /\ Storable(k, v)
    BY <1>3, Stored DEF store
  <2>. QED
    BY <1>0, <2>1, SetStorable, RestartStorable DEF StorableInv, Storable
<1>4. CASE Commit
  <2>1. \A k \in Keys : maybe'[k] = {nvs[k]} /\ nvs[k] \in maybe[k]
    BY <1>0, <1>4 DEF Commit, StoreTypes
  <2>. QED
    BY <2>1 DEF StorableInv, Storable
<1>5. CASE RestartTask \/ PowerLoss
  BY <1>0, <1>5, RestartStorable DEF RestartTask, PowerLoss
<1>6. CASE maybe' = maybe
  BY <1>6 DEF StorableInv, Storable
<1>7. CASE UartInit \/ WebServerStart \/ ConfigRestart \/ Answer \/ UNCHANGED vars
  BY <1>6, <1>7 DEF UartInit, WebServerStart, ConfigRestart, Answer, vars, store
<1>8. ASSUME NEW form \in Forms, Post(form) PROVE StorableInv'
  BY <1>6, <1>8 DEF Post, store
<1>. QED
  BY <1>1, <1>2, <1>3, <1>4, <1>5, <1>7, <1>8 DEF Next, Main, Http

(* What becomes of an entry of each kind, as the round trip needs it.      *)
LEMMA OutcomeOf ==
    ASSUME NEW k \in Keys, NEW e
    PROVE  /\ e.json = "string" /\ e.text = "unchanged" => Outcome(k, e) = "skipped"
           /\ e.json = "string" /\ k \in String => Outcome(k, e) \in {"skipped", e.text}
           /\ e.json = "string" /\ k \in Number /\ e.text \in Options(k)
                 => Outcome(k, e) = e.text
           /\ e.json = "strings" /\ k = "w_ap_gw" /\ e.text \in Addresses
                 => Outcome(k, e) = e.text
           /\ e.json = "string" /\ k = "w_ap_color" /\ e.text \in Colours
                 => Outcome(k, e) = IF e.text = "black" THEN "black" ELSE "white/55"
<1>1. e.json = "string" /\ e.text = "unchanged" => Outcome(k, e) = "skipped"
  BY DEF Outcome, Skipped
<1>2. ASSUME e.json = "string", k \in String PROVE Outcome(k, e) \in {"skipped", e.text}
  <2>1. k # "w_ap_gw"
    BY <1>2 DEF String
  <2>. QED
    BY <1>2, <2>1 DEF Outcome
<1>3. ASSUME e.json = "string", k \in Number, e.text \in Options(k)
      PROVE  Outcome(k, e) = e.text
  <2>1. k \notin String /\ k # "w_ap_gw" /\ k # "w_ap_color"
    BY <1>3 DEF Number, String
  <2>2. e.text \in {"uart", "usb", "bluetooth", "udp", "115200"}
        /\ (k # "serial_baurate" => e.text # "115200")
    BY <1>3 DEF Options
  <2>3. ~Skipped(k, e)
    BY <2>2 DEF Skipped
  <2>4. e.text \in Numerals /\ Whole(e.text) = e.text
        /\ (k # "serial_baurate" => Narrow(e.text) = e.text)
    BY <2>2 DEF Numerals, Whole, Narrow
  <2>5. NumberOf(k, e.text) = e.text
    BY <2>4 DEF NumberOf
  <2>. QED
    BY <1>3, <2>1, <2>3, <2>5 DEF Outcome
<1>4. ASSUME e.json = "strings", k = "w_ap_gw", e.text \in Addresses
      PROVE  Outcome(k, e) = e.text
  <2>1. ~Skipped(k, e)
    BY <1>4 DEF Skipped
  <2>. QED
    BY <1>4, <2>1 DEF Outcome, AddressOf
<1>5. ASSUME e.json = "string", k = "w_ap_color", e.text \in Colours
      PROVE  Outcome(k, e) = IF e.text = "black" THEN "black" ELSE "white/55"
  <2>1. k \notin String /\ k # "w_ap_gw" /\ ~Skipped(k, e)
    BY <1>5 DEF Skipped, String, Colours
  <2>2. Outcome(k, e) = ColourOf(e.text)
    BY <1>5, <2>1 DEF Outcome
  <2>. QED
    BY <1>5, <2>2 DEF ColourOf, Colours
<1>. QED
  BY <1>1, <1>2, <1>3, <1>4, <1>5

(* Of every value an item can have, what the page shows, takes in and      *)
(* submits again is the value, or is skipped; a colour may lose its alpha. *)
LEMMA RoundTrip ==
    ASSUME NEW k \in Keys, NEW v, Storable(k, v), v # "absent", Submits(k, Shown(k, v))
    PROVE  LET what == Outcome(k, Submitted(Shown(k, v))) IN
           \/ what \in {"skipped", v}
           \/ k = "w_ap_color" /\ Shown(k, what) = Shown(k, v)
           \/ k = "in_tcp_ip" /\ v = "pointer"
<1> DEFINE what == Outcome(k, Submitted(Shown(k, v)))
<1>1. CASE k \in Number
  <2>1. k \notin String /\ k \notin Secret /\ k \notin {"w_ap_gw", "w_ap_color", "in_tcp_ip"}
    BY <1>1 DEF Number, String, Secret
  <2>2. Shown(k, v) = [json |-> "string", text |-> v] /\ v # "pointer"
    BY <2>1 DEF Shown, Storable
  <2>3. Submitted(Shown(k, v)) = [json |-> "string", text |-> v]
    BY <2>2 DEF Submitted
  <2>4. v \in Options(k)
    BY <1>1, <2>2 DEF Submits
  <2>5. what = v
    BY <1>1, <2>3, <2>4, OutcomeOf
  <2>. QED
    BY <2>5
<1>2. CASE k \in String /\ ~(k = "in_tcp_ip" /\ v = "pointer")
  <2>1. k \notin {"w_ap_gw", "w_ap_color"}
    BY <1>2 DEF String
  <2>2. CASE k \in Secret /\ v # ""
    <3>1. Shown(k, v) = [json |-> "string", text |-> "unchanged"]
      BY <2>2 DEF Shown, Secret
    <3>2. Submitted(Shown(k, v)) = [json |-> "string", text |-> "unchanged"]
      BY <3>1 DEF Submitted
    <3>3. what = "skipped"
      BY <3>2, OutcomeOf
    <3>. QED
      BY <3>3
  <2>3. CASE ~(k \in Secret /\ v # "")
    <3>1. Shown(k, v) = [json |-> "string", text |-> v] /\ v # "pointer"
      BY <1>2, <2>1, <2>3 DEF Shown, Storable
    <3>2. Submitted(Shown(k, v)) = [json |-> "string", text |-> v]
      BY <3>1 DEF Submitted
    <3>3. what \in {"skipped", v}
      BY <1>2, <3>2, OutcomeOf
    <3>. QED
      BY <3>3
  <2>. QED
    BY <2>2, <2>3
<1>3. CASE k = "w_ap_gw"
  <2>1. Shown(k, v) = [json |-> "numbers", text |-> v] /\ v \in Addresses
    BY <1>3 DEF Shown, Secret, Storable
  <2>2. Submitted(Shown(k, v)) = [json |-> "strings", text |-> v]
    BY <2>1 DEF Submitted, Addresses
  <2>3. what = v
    BY <1>3, <2>1, <2>2, OutcomeOf
  <2>. QED
    BY <2>3
<1>4. CASE k = "w_ap_color"
  <2>1. \A w : Shown(k, w) = [json |-> "string", text |-> IF w = "white/55" THEN "white" ELSE "black"]
    BY <1>4 DEF Shown, Secret
  <2>3. CASE v = "white/55"
    <3>1. Submitted(Shown(k, v)) = [json |-> "string", text |-> "white"]
      BY <2>1, <2>3 DEF Submitted
    <3>2. what = "white/55"
      BY <1>4, <3>1, OutcomeOf DEF Colours
    <3>. QED
      BY <2>3, <3>2
  <2>4. CASE v # "white/55"
    <3>1. Submitted(Shown(k, v)) = [json |-> "string", text |-> "black"]
      BY <2>1, <2>4 DEF Submitted
    <3>2. what = "black"
      BY <1>4, <3>1, OutcomeOf DEF Colours
    <3>3. Shown(k, what) = Shown(k, v)
      BY <2>1, <2>4, <3>2
    <3>. QED
      BY <1>4, <3>3
  <2>. QED
    BY <2>3, <2>4
<1>5. k \in Number \/ k \in String \/ k = "w_ap_gw" \/ k = "w_ap_color"
  BY DEF Keys, Number, String
<1>6. CASE k = "in_tcp_ip" /\ v = "pointer"
  BY <1>6
<1>. QED
  BY <1>1, <1>2, <1>3, <1>4, <1>5, <1>6

LEMMA RepostFollows ==
    ASSUME StoreTypes, StorableInv
    PROVE  RepostChangesNothing
<1>. SUFFICES ASSUME NEW k \in Keys PROVE Storable(k, Read(k)) /\ Read(k) # "absent"
  BY RoundTrip DEF RepostChangesNothing
<1>1. Storable(k, nvs[k])
  BY DEF StoreTypes, StorableInv
<1>2. Storable(k, Default[k])
  <2>1. /\ Default["in_pro_type"] = "uart" /\ Default["out_pro_type"] = "bluetooth"
        /\ Default["serial_baurate"] = "key address" /\ Default["in_tcp_ip"] = "10.33.3.4"
        /\ Default["w_ap_ssid"] = "" /\ Default["w_ap_pass"] = ""
        /\ Default["w_ap_color"] = "black/55" /\ Default["w_ap_gw"] = "192.168.4.1"
    BY DEF Default
  <2>2. "192.168.4.1" \in Addresses
    BY DEF Addresses
  <2>. QED
    BY <2>1, <2>2 DEF Storable, Keys
<1>3. Read(k) # "absent"
  BY ReadValue, NoValue
<1>. QED
  BY <1>1, <1>2, <1>3 DEF Read

-----------------------------------------------------------------------------

IInv == TypeOK /\ RequestInv /\ AcceptedIsKept /\ BootInv /\ DriverMatchesInput

LEMMA Initially == ASSUME ConfigurationAssumption, Init PROVE IInv
<1>1. /\ nvs = [k \in Keys |-> "absent"] /\ maybe = [k \in Keys |-> {"absent"}]
      /\ boot = 1 /\ board = [k \in Keys |-> "0"] /\ driver = "none"
      /\ http = [pc |-> "idle", left |-> {}, sent |-> <<>>, set |-> {}]
      /\ accepted = [k \in Keys |-> "none"] /\ misfiled = FALSE
      /\ pending = FALSE /\ scarce \in BOOLEAN /\ losses \in {MaxLosses, 0}
  BY DEF Init
<1>2. StoreTypes
  BY <1>1 DEF StoreTypes
<1>3. BootTypes
  <2>1. "0" \in Values
    BY DEF Values, Texts, Numerals, Colours, Addresses
  <2> QED
    BY <1>1, <2>1, BootSteps DEF BootTypes
<1>4. HttpTypes
  BY <1>1 DEF HttpTypes
<1>5. HistoryTypes
  <2>1. losses \in 0..MaxLosses
    BY <1>1 DEF ConfigurationAssumption
  <2>2. accepted \in [Keys -> Values \cup {"none"}]
    BY <1>1
  <2> QED
    BY <1>1, <2>1, <2>2 DEF HistoryTypes
<1>6. RequestInv /\ AcceptedIsKept
  BY <1>1 DEF RequestInv, AcceptedIsKept
<1>7. ~Up
  BY <1>1, BootSteps DEF Up, At
<1>8. BootInv /\ DriverMatchesInput
  BY <1>1, <1>7 DEF BootInv, DriverMatchesInput
<1> QED
  BY <1>2, <1>3, <1>4, <1>5, <1>6, <1>8 DEF IInv, TypeOK

LEMMA Always == Spec => []IInv
<1>1. Init => IInv
  BY Initially, ConfigurationAssumption
<1>2. IInv /\ [Next]_vars => IInv'
  BY TypeStep, KeptStep, DriverStep, ConfigurationAssumption DEF IInv
<1> QED
  BY <1>1, <1>2, PTL DEF Spec

(* The variables keep their types, whatever the forms hold.                *)
THEOREM ConfigurationTypeCorrect == Spec => []TypeOK
<1>1. IInv => TypeOK
  BY DEF IInv
<1> QED
  BY Always, <1>1, PTL

(* What an answered POST has set is what every later boot reads, however   *)
(* often the device restarts, crashes or loses power, until it is posted   *)
(* again (web_server.c:512, main.cpp:90); only the input can be lost to    *)
(* the default of the output (main.cpp:102).                               *)
THEOREM AcceptedStays == Spec => []AcceptedIsKept
<1>1. IInv => AcceptedIsKept
  BY DEF IInv
<1> QED
  BY Always, <1>1, PTL

(* Once the device is up, the port that the driver was installed for is    *)
(* the input that its task asks for, unless the output is blank.           *)
THEOREM DriverFollowsInput == Spec => []DriverMatchesInput
<1>1. IInv => DriverMatchesInput
  BY DEF IInv
<1> QED
  BY Always, <1>1, PTL

(* The page that config_get_handler filled (web_server.c:431), with what   *)
(* its selects, number fields and serialize make of it (settings.html:52), *)
(* submitted again stores nothing new (web_server.c:512): whatever was     *)
(* posted before and wherever power was lost.  Two items may change: a     *)
(* colour loses its alpha, and an address never set its stray bytes.       *)
THEOREM RepostIsHarmless == Spec => []RepostChangesNothing
<1>1. Init => StorableInv
  <2>1. ASSUME Init PROVE StorableInv
    <3>1. \A k \in Keys : maybe[k] = {"absent"}
      BY <2>1 DEF Init
    <3>. QED
      BY <3>1 DEF StorableInv, Storable
  <2>. QED
    BY <2>1
<1>2. IInv /\ StorableInv /\ [Next]_vars => StorableInv'
  BY StorableStep, ConfigurationAssumption DEF IInv
<1>3. IInv /\ StorableInv => RepostChangesNothing
  BY RepostFollows DEF IInv, TypeOK
<1> QED
  BY Always, <1>1, <1>2, <1>3, PTL DEF Spec
=============================================================================
