-------------------------- MODULE MCConfiguration --------------------------
(***************************************************************************)
(* Forms for the configuration: what the settings page can submit, and     *)
(* what a client can that sends back the numbers it got, or a number that  *)
(* is 0 as an int8_t.                                                      *)
(***************************************************************************)
EXTENDS Configuration

Str(t) == [json |-> "string", text |-> t]

Address(j) == [json |-> j, text |-> "192.168.4.1"]

(* Choices and a blank string; a refused entry beside a blank output; an   *)
(* entry that ends the request after another was stored.                   *)
MCForms ==
    {[in_pro_type |-> Str("usb"), out_pro_type |-> Str("udp"), in_tcp_ip |-> Str("")],
     [w_ap_color |-> Str("word"), in_pro_type |-> Str("udp"), out_pro_type |-> Str("256")],
     [w_ap_pass |-> Str("word"), w_ap_gw |-> Address("numbers")]}

PageForms ==
    {[in_pro_type |-> Str("usb"), out_pro_type |-> Str("udp"), in_tcp_ip |-> Str("10.33.3.4")]}
=============================================================================
