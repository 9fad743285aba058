---------------------------- MODULE MCCodingTree ----------------------------
(***************************************************************************)
(* Pictures to decode, each family for one part of the decoder, and        *)
(* parameter sets with slice headers.  Lengths of pictures are in units of *)
(* four samples.                                                           *)
(***************************************************************************)
EXTENDS CodingTreeRules, HevcHeaders

\* One CTB of 16 x 16 samples, coding units of 8 x 8 and up, 4:2:0.
Plain ==
    [w |-> 4, h |-> 4, ctb |-> 2, cb |-> 1, maxTb |-> 2, hierarchy |-> 0, chroma |-> 1,
     qp |-> 26, delta |-> FALSE, qgDepth |-> 0, deltas |-> {0}, rows |-> FALSE,
     wpp |-> FALSE, entries |-> << >>, last |-> 0,
     sao |-> [luma |-> FALSE, chroma |-> FALSE, scale |-> 0, coded |-> {}],
     bits |-> 8, free |-> {}]

\* The picture in another size, its slice ended at its last CTB.
Sized(p, w, h) ==
    LET side == Pow(p.ctb)
    IN  [p EXCEPT !.w = w, !.h = h, !.last = (DivCeil(w, side) * DivCeil(h, side)) - 1]

BothDrivers(pictures) == pictures \cup {[p EXCEPT !.rows = TRUE] : p \in pictures}

\* Trees of all shapes, with edges of the picture inside CTBs, in every
\* format; CTBs of 32 x 32 samples; enough rows for the arrays to be shifted.
Shapes ==
    LET free == [Plain EXCEPT !.free = {"split", "nxn"}]
        split == [Plain EXCEPT !.free = {"split"}]
    IN  BothDrivers({Sized(free, 6, 6), Sized(split, 6, 12), Sized([split EXCEPT !.ctb = 3], 12, 8)})
        \cup {Sized([free EXCEPT !.chroma = c], 6, 4) : c \in {0, 2, 3}}

\* Quantization groups as large as CTBs and as small as coding units.
Quantized ==
    LET p == [Plain EXCEPT !.delta = TRUE, !.deltas = {5}, !.free = {"split", "luma residual"}]
    IN  BothDrivers({Sized([p EXCEPT !.qgDepth = 1], 6, 6), Sized([p EXCEPT !.qp = 51], 6, 6)})
        \cup {Sized([p EXCEPT !.ctb = 3, !.qgDepth = g], 6, 6) : g \in 0 .. 2}
        \cup {Sized([p EXCEPT !.deltas = {1, -2}, !.bits = 10, !.qp = -12], 6, 4),
              Sized([p EXCEPT !.wpp = TRUE, !.qgDepth = 1], 6, 6)}

Intra ==
    LET p == [Plain EXCEPT !.free = {"modes"}]
        nxn == [Plain EXCEPT !.free = {"modes", "nxn"}]
    IN  BothDrivers({Sized(p, 2, 6)})
        \cup {Sized([p EXCEPT !.chroma = c], 4, 2) : c \in {0, 2, 3}}
        \cup {Sized([nxn EXCEPT !.chroma = c], 2, 2) : c \in {1, 3}}

\* Transform trees, the smallest with chroma blocks that four of them share.
Transformed ==
    LET p == [Plain EXCEPT !.hierarchy = 1, !.delta = TRUE, !.deltas = {4},
                           !.free = {"nxn", "split transform", "chroma residual",
                                     "luma residual"}]
        large == [p EXCEPT !.cb = 2]
    IN  {Sized([p EXCEPT !.chroma = c, !.free = @ \ {"nxn"}], 2, 2) : c \in {1, 2, 3}}
        \cup {Sized([p EXCEPT !.free = {"nxn", "bypass", "split transform"}], 2, 4),
              Sized([large EXCEPT !.free = {"split transform", "luma residual"}], 4, 4),
              Sized([large EXCEPT !.maxTb = 1, !.free = {"bypass", "luma residual"}], 8, 4),
              Sized([large EXCEPT !.hierarchy = 2, !.free = {"split transform"}], 4, 4)}

Substreams(rows) == {<< >>, [i \in 1 .. rows - 1 |-> i], <<1>>, [i \in 1 .. rows - 1 |-> Beyond]}

\* Wavefronts, with all, some and no entry points; slices that end early or
\* not at all.
Wavefronts ==
    UNION {{[Sized(Plain, 4 * x, 4 * y) EXCEPT !.wpp = TRUE, !.entries = e] :
               e \in Substreams(y)} : x \in 1 .. 3, y \in 2 .. 3}

Ends == BothDrivers({[Sized(Plain, 8, 8) EXCEPT !.last = a] : a \in {0, 1, 2, 9}})

\* Bands and edges, with the largest offset of the bit depth.
Coded(largest) ==
    LET Some(type, sign, at) ==
            [type |-> type, at |-> at,
             offsets |-> [k \in 0 .. 3 |-> IF k = 3 THEN sign * largest ELSE k]]
        Own(luma, cb, cr) == [from |-> "own", luma |-> luma, cb |-> cb, cr |-> cr]
    IN  {Own(Some(0, 1, 0), Some(2, 1, 1), Some(2, 1, 3)),
         Own(Some(1, -1, 31), Some(1, -1, 5), Some(1, 1, 6)),
         Own(Some(2, 1, 2), Some(0, 1, 0), Some(1, 1, 1))}

Offset ==
    LET Both(p) == [p EXCEPT !.sao = [luma |-> TRUE, chroma |-> TRUE, scale |-> 0,
                                    coded |-> Coded(7)]]
        two == Both(Sized(Plain, 8, 8))
        scaled == [two EXCEPT !.bits = 12, !.sao.scale = 2, !.sao.coded = Coded(31)]
    IN  BothDrivers({two, Both(Sized(Plain, 4, 16))})
        \cup {scaled, [scaled EXCEPT !.sao.luma = FALSE], [scaled EXCEPT !.chroma = 0],
              [Sized(Both(Plain), 8, 12) EXCEPT !.rows = TRUE, !.sao.chroma = FALSE]}

Pictures == UNION {Shapes, Quantized, Intra, Transformed, Wavefronts, Ends, Offset}

-----------------------------------------------------------------------------
(* Syntax elements: of a plain picture of 64 x 32 samples, of one with every *)
(* optional part, and of either with up to two elements changed.           *)

Unscaled ==
    [size \in 0 .. 3 |->
        [m \in Matrices(size) |-> [coded |-> FALSE, delta |-> 0, dc |-> 0, coef |-> 0]]]

Flags ==
    {"separate_colour_planes", "conformance_window", "pcm", "long_term_pics", "vui",
     "vui_timing", "vui_hrd", "fixed_pic_rate", "low_delay", "scaling_lists", "sps_list_data",
     "sao", "strong_smoothing", "video_signal", "full_range", "colour_description",
     "sps_extension", "sps_range_extension", "rext_tool", "cu_qp_delta", "pps_extension",
     "pps_range_extension", "deblocking_control", "pps_deblocking_disabled", "tiles",
     "transform_skip", "cross_component", "chroma_offset_list", "slice_chroma_offsets",
     "deblocking_override_enabled", "pps_list_data", "dependent_slices", "sign_hiding",
     "transquant_bypass", "wpp", "slice_override", "slice_deblocking_disabled",
     "set_of_sps", "set_predicted", "slice_sao_luma", "slice_sao_chroma",
     "output_flag_present"}

\* Flags that a picture with every part that is supported does not have set.
Unsupported ==
    {"separate_colour_planes", "pcm", "low_delay", "sps_extension", "rext_tool",
     "pps_extension", "cross_component", "chroma_offset_list", "dependent_slices",
     "pps_deblocking_disabled", "slice_deblocking_disabled", "set_predicted"}

Zero ==
    {"vps_id", "max_layers_minus1", "vps_max_sub_layers_minus1", "sps_vps_id",
     "sps_max_sub_layers_minus1", "sps_id", "left", "right", "top", "bottom",
     "bit_depth_luma_minus8", "bit_depth_chroma_minus8", "log2_max_poc_lsb_minus4",
     "log2_min_cb_minus3", "log2_min_tb_minus2", "hierarchy_inter", "hierarchy_intra",
     "num_short_term_sets", "num_set_pics", "num_long_term_sps", "cpb_cnt_minus1",
     "log2_min_pcm_minus3", "log2_diff_pcm", "pps_id", "pps_sps_id",
     "num_ref_idx_l0_minus1", "num_ref_idx_l1_minus1", "log2_parallel_merge_minus2",
     "cu_qp_delta_depth", "sao_scale_luma", "sao_scale_chroma", "init_qp_minus26",
     "pps_cb_offset", "pps_cr_offset", "pps_beta", "pps_tc", "tile_columns_minus1",
     "tile_rows_minus1", "log2_transform_skip_minus2", "slice_pps_id", "slice_qp_delta",
     "slice_cb_offset", "slice_cr_offset", "slice_beta", "slice_tc", "num_entry_points",
     "entry_offset_len_minus1"}

Others ==
    [vps_reserved |-> 65535, chroma_format_idc |-> 1, width |-> 64, height |-> 32,
     log2_diff_cb |-> 1, log2_diff_tb |-> 2, primaries |-> 1, transfer |-> 13, matrix |-> 6,
     first_slice |-> 1, pic_output |-> 1, slice_type |-> 2, slice_data |-> 1, idr |-> 1,
     sps_lists |-> Unscaled, pps_lists |-> Unscaled]

WithFlags(set) ==
    [n \in Flags \cup Zero \cup DOMAIN Others |->
        IF n \in DOMAIN Others THEN Others[n] ELSE IF n \in set THEN 1 ELSE 0]

Simple == WithFlags({})
Full == WithFlags(Flags \ Unsupported)

\* Values at the bounds of what fields, tables and the checks have room for.
Changes ==
    ((Flags \ {"transform_skip", "sign_hiding", "strong_smoothing"}) \X {0, 1})
    \cup ({"log2_min_cb_minus3", "log2_diff_cb", "log2_diff_tb", "hierarchy_intra",
           "cu_qp_delta_depth", "chroma_format_idc"} \X {0, 2, 3, 4, 256})
    \cup ({"sps_id", "pps_id", "slice_pps_id", "pps_sps_id", "num_short_term_sets"}
             \X {1, 16, 64, 256})
    \cup ({"slice_qp_delta", "init_qp_minus26", "pps_cb_offset", "slice_tc"}
             \X {-257, -27, -26, -7, 12, 25, 26, 256})
    \cup ({"width", "height"} \X {0, 20, 24, 16384, 16392})
    \cup ({"left", "bottom"} \X {1, 15, 16, 32})
    \cup ({"bit_depth_luma_minus8", "bit_depth_chroma_minus8", "sao_scale_luma"} \X {2, 3, 9})
    \cup ({"tile_columns_minus1", "num_set_pics"} \X {1, 4097, 65536})
    \cup {<<"idr", 0>>, <<"first_slice", 0>>, <<"pic_output", 0>>, <<"slice_type", 1>>,
          <<"slice_type", 258>>, <<"slice_data", 0>>, <<"vps_reserved", 0>>, <<"vps_id", 1>>,
          <<"max_layers_minus1", 1>>, <<"num_long_term_sps", 33>>, <<"cpb_cnt_minus1", 32>>,
          <<"num_entry_points", 1>>, <<"num_entry_points", 2>>,
          <<"entry_offset_len_minus1", 32>>, <<"log2_max_poc_lsb_minus4", 13>>,
          <<"log2_transform_skip_minus2", 1>>}

\* Scaling lists with one matrix coded and one taken from another.
Lists ==
    {[Unscaled EXCEPT ![size][0] = [coded |-> TRUE, delta |-> 0, dc |-> dc, coef |-> coef],
                      ![size][3] = [coded |-> FALSE, delta |-> delta, dc |-> 0, coef |-> 0]] :
        size \in {0, 2, 3}, dc \in {-8, 0, 247}, coef \in {-200, -20, 100}, delta \in 0 .. 4}

HeadersInit ==
    /\ \/ \E base \in {Simple, Full}, a \in Changes, b \in Changes :
             coded = [base EXCEPT ![a[1]] = a[2], ![b[1]] = b[2]]
       \/ \E base \in {Simple, Full}, lists \in Lists :
             \E n \in {"sps_lists", "pps_lists"} : coded = [base EXCEPT ![n] = lists]
    /\ HeaderInit

-----------------------------------------------------------------------------
MCInit ==
    \/ /\ \E p \in Pictures : InitFor(p)
       /\ coded = Simple /\ prepared = Refused /\ decoded = Refused
    \/ HeadersInit /\ InitFor([Plain EXCEPT !.w = 0, !.h = 0])

MCNext ==
    \/ pic.w > 0 /\ Next /\ UNCHANGED headerVars
    \/ HeaderNext /\ UNCHANGED vars

MCSpec == MCInit /\ [][MCNext]_<<vars, headerVars>>

=============================================================================
