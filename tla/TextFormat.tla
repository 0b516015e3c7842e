------------------------------ MODULE TextFormat ------------------------------
(***************************************************************************)
(* The text of a response: src/src/prometheus and the label list that      *)
(* render_with_names of src/src/wireguard.rs makes for a peer. A text is a *)
(* sequence of tokens: names and numbers are one token each, the value of  *)
(* a label is made of the characters the format tells apart.               *)
(***************************************************************************)
EXTENDS LabelText, FiniteSets

CONSTANTS JsonKeys, \* names friendly_json may use, in byte order
          Nested    \* a JSON value that is null, an array or an object

Families == <<"sent", "received", "handshake", "delay">>

TypeName == [Counter |-> "counter", Gauge |-> "gauge", Histogram |-> "histogram", Summary |-> "summary"]

(***************************************************************************)
(* A metric is built by naming it, typing it and describing it, in any     *)
(* order, each once: the marker types Yes and No admit no other use.       *)
(***************************************************************************)
NewBuilder == [name |-> None, metric_type |-> None, help |-> None]
WithName(b, n) == [b EXCEPT !.name = n]
WithMetricType(b, t) == [b EXCEPT !.metric_type = t]
WithHelp(b, h) == [b EXCEPT !.help = h]
Build(b) == [counter_name |-> b.name, counter_type |-> b.metric_type,
             counter_help |-> b.help, rendered_instances |-> <<>>]

Metric(name, type, help) == Build(WithHelp(WithMetricType(WithName(NewBuilder, name), type), help))

NewMetrics(options) ==
  LET sent == Metric("wireguard_sent_bytes_total", "Counter", "Bytes sent to the peer")
      received == Metric("wireguard_received_bytes_total", "Counter", "Bytes received from the peer")
      handshake == Metric("wireguard_latest_handshake_seconds", "Gauge",
                          "UNIX timestamp seconds of the last handshake")
      delay == Metric("wireguard_latest_handshake_delay_seconds", "Gauge",
                      "Seconds from the last handshake")
  IN  IF options.delay
      THEN [sent |-> sent, received |-> received, handshake |-> handshake, delay |-> delay]
      ELSE [sent |-> sent, received |-> received, handshake |-> handshake]

(***************************************************************************)
(* Rows and families as text.                                              *)
(***************************************************************************)
RenderLabel(l) == <<l[1], "=", Quote>> \o l[2] \o <<Quote>>
RenderInstance(labels, value) ==
  (IF labels = <<>> THEN <<>>
   ELSE <<"{">> \o FlattenSeq([n \in DOMAIN labels |->
                    (IF n = 1 THEN <<>> ELSE <<",">>) \o RenderLabel(labels[n])]) \o <<"}">>)
  \o <<" ", Decimal(value)>>

RenderAndAppendInstance(m, labels, value) ==
  [m EXCEPT !.rendered_instances =
     Append(@, <<m.counter_name>> \o RenderInstance(labels, value) \o <<NewLine>>)]

RenderHeader(m) == <<"# HELP ", m.counter_name, m.counter_help, NewLine,
                     "# TYPE ", m.counter_name, TypeName[m.counter_type], NewLine>>
RenderMetric(m) == RenderHeader(m) \o FlattenSeq(m.rendered_instances)

RenderBody(metrics) ==
  FlattenSeq([n \in 1 .. Cardinality(DOMAIN metrics) |->
    (IF n = 1 THEN <<>> ELSE <<NewLine>>) \o RenderMetric(metrics[Families[n]])])

(***************************************************************************)
(* The labels of a peer. split cuts at every separator.                    *)
(***************************************************************************)
Cut(parts, c, separator) ==
  IF c = separator THEN Append(parts, <<>>) ELSE [parts EXCEPT ![Len(parts)] = Append(@, c)]
Split(text, separator) ==
  LET parts[n \in 0 .. Len(text)] ==
        IF n = 0 THEN << <<>> >> ELSE Cut(parts[n - 1], text[n], separator)
  IN  parts[Len(text)]

Networks(allowed_ips) == LET nets == Split(allowed_ips, ",")
                         IN  [n \in DOMAIN nets |-> Split(nets[n], "/")]
NoSubnet(allowed_ips) == \E n \in DOMAIN Networks(allowed_ips) : Len(Networks(allowed_ips)[n]) < 2

AddressLabel(part, n) == part \o ToString(n)
SplitLabels_SameName(allowed_ips) ==
  FlattenSeq([n \in DOMAIN Networks(allowed_ips) |->
    << <<"allowed_ip_0", Networks(allowed_ips)[n][1]>>,
       <<"allowed_subnet_0", Networks(allowed_ips)[n][2]>> >>])
SplitLabels(allowed_ips) ==
  FlattenSeq([n \in DOMAIN Networks(allowed_ips) |->
    << <<AddressLabel("allowed_ip_", n - 1), Networks(allowed_ips)[n][1]>>,
       <<AddressLabel("allowed_subnet_", n - 1), Networks(allowed_ips)[n][2]>> >>])

(* What try_from of a friendly description keeps: a name with its quotes   *)
(* escaped, or the entries of a JSON object as serde_json decoded them.    *)
Keep(desc) == IF desc.tag = "name" THEN [desc EXCEPT !.name = Escape("name", @)] ELSE desc

(* The entries of a JSON object are sorted by name; a string goes into the *)
(* label as it is, a number or a boolean as it prints. Nothing else has a  *)
(* text: the exporter panics.                                              *)
NoJsonText(json) == \E k \in DOMAIN json : json[k] = Nested
JsonLabels(json) ==
  LET names == Filter(JsonKeys, LAMBDA k : k \in DOMAIN json)
  IN  [n \in DOMAIN names |-> <<names[n], json[names[n]]>>]

If(condition, labels) == IF condition THEN labels ELSE <<>>
Labels(interface, ep, desc, options) ==
  LET attributes ==
        << <<"interface", <<interface>> >>, <<"public_key", <<ep.public_key>> >> >>
        \o If(~options.split, << <<"allowed_ips", ep.allowed_ips>> >>)
        \o If(desc.tag = "name", << <<"friendly_name", desc.name>> >>)
        \o If(options.remote /\ ep.remote_ip # None, << <<"remote_ip", <<ep.remote_ip>> >> >>)
      attributes_owned ==
        If(options.split, SplitLabels(ep.allowed_ips))
        \o If(desc.tag = "json", JsonLabels(desc.json))
        \o If(options.remote /\ ep.remote_port # None,
              << <<"remote_port", <<ep.remote_port>> >> >>)
  IN  attributes \o attributes_owned
===============================================================================
