---------------------------- MODULE MCSensorFrames ----------------------------
(* Units to measure with: the ends of each field, negative values, and the    *)
(* values next to where a field changes its neighbour or its encoding.        *)
EXTENDS SensorFrames

Slot == {<<32, 0>>, <<5, 3>>, <<9, 7>>}
Tables == {<<a, b, c>> \o [i \in 1..9 |-> IF i = 9 THEN <<31, 7>> ELSE <<2, 0>>] :
             a \in Slot, b \in Slot, c \in Slot}

MCUnit ==
  "ruuvi5" :> [temp : {-1, 4860}, hum : {65534}, press : {0}, acc : {-4},
               batt : {899, 2047}, count : {1, 2}]
  @@ "ruuvi6" :> [temp : {-32767, 1}, co2 : {400, 65534}, voc : {301}, lum : {9}]
  @@ "mopeka" :> [hw : {3}, fluid : {8}, butane : {0, 100}, temp : {127},
                  batt : {73, 74}, echo : {16383, 16384, 81916}]
             \cup [hw : {4}, fluid : {8}, butane : {0}, temp : {60}, batt : {90},
                   echo : {5, 16384}]
             \cup [hw : {12}, fluid : {0, 1, 6, 8}, butane : {40}, temp : {0},
                   batt : {90}, echo : {16383, 16384}]
  @@ "mopeka_std" :> [batt : {100}, temp : {0}, butane : {50}, table : Tables]
                 \cup [batt : {104}, temp : {63}, butane : {50},
                       table : {[i \in 1..12 |-> <<32, IF i = 12 THEN 31 ELSE 0>>]}]
  @@ "gobius" :> [hw : {1}, temp : {0, 127}, dist : {0, 65533}]
  @@ "safiery" :> [batt : {73, 127}, temp : {127}, dist : {0, 16383}, acc : {-128, 5}]
  @@ "solarsense" :> [power : {0, 1048574}, irr : {16382}, cell : {0, 2046},
                      batt : {149, 254}, sun : {30, 126}]
  @@ "eye" :> [temp : {-1, 2150}, batt : {0, 255}]
  @@ "eye_all" :> [temp : {-1}, hum : {100}, count : {0, 32767}, pitch : {-90},
                   roll : {-180, 180}, batt : {120}]
  @@ "eye_magnet" :> [magnet : {0, 1}, batt : {120}]
  @@ "btp3" :> [tank : {<<"open">>, <<"error">>, <<"number", 101>>},
                temperature : {<<"junk">>, <<"error">>, <<"number", 31>>},
                battery : {<<"number", 128>>}]
  @@ "btp7" :> [tank : {<<"error">>, <<"number", 0>>, <<"number", 100>>},
                battery : {<<"number", 128>>}]
=============================================================================
