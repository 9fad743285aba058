----------------------------- MODULE HevcHeaders -----------------------------
(***************************************************************************)
(* The parameter sets and the slice header of an HEVC image, and which     *)
(* pictures are decoded of them (hevc/params.rs, hevc/slice.rs, and the    *)
(* checks of hevc/mod.rs and hevc/bounded.rs).  One set of parsers serves  *)
(* two decoders:                                                           *)
(*                                                                         *)
(*   decode_nal_units   all profiles; a syntax element that is too large   *)
(*                      for its field is narrowed to it;                   *)
(*   Prepared::new      8 bits and 4:2:0 only, nothing narrowed, every     *)
(*                      parameter in its range.                            *)
(*                                                                         *)
(* What is coded is a record of syntax elements, numbers of any size, and  *)
(* flags 0 and 1; an element that is not present has no effect.  Elements  *)
(* that are only passed over are left out, but for those a parser refuses. *)
(***************************************************************************)
EXTENDS Integers, Sequences

VARIABLES
    coded,      \* the syntax elements
    prepared,   \* what Prepared::new makes of them
    decoded     \* the picture that decode_nal_units decodes

headerVars == <<coded, prepared, decoded>>

Pending == [is |-> "pending"]
Refused == [is |-> "refused"]

On(flag) == coded[flag] = 1
When(flag, names) == IF On(flag) THEN names ELSE {}
Or0(flag, value) == IF On(flag) THEN value ELSE 0

U8(v) == v % 256
I8(v) == ((v + 128) % 256) - 128
U16(v) == v % 65536

-----------------------------------------------------------------------------
(* Narrowing.                                                              *)

\* What bounded_ue_u8 and bounded_se_i8 give: they refuse, if bounded, what
\* does not fit.
Narrowed(e, unsigned, signed) ==
    [n \in DOMAIN e |-> IF n \in unsigned THEN U8(e[n])
                        ELSE IF n \in signed THEN I8(e[n]) ELSE e[n]]

\* Mutant of Overflows: nothing is refused.
NothingOverflows(e, unsigned, signed) == FALSE

Overflows(e, unsigned, signed) ==
    \/ \E n \in unsigned : e[n] > 255
    \/ \E n \in signed : e[n] \notin -128 .. 127

-----------------------------------------------------------------------------
(* Scaling lists, by size 0 .. 3 and matrix 0 .. 5, of the largest size    *)
(* only 0 and 3.  One that is coded has all its coefficients the same.     *)

Step(size) == IF size = 3 THEN 3 ELSE 1
Matrices(size) == {m \in 0 .. 5 : m % Step(size) = 0}

\* Its last coefficient, and the DC coefficient.
DefaultList(size, m) ==
    [last |-> IF size = 0 THEN 16 ELSE IF m < 3 THEN 115 ELSE 91, dc |-> 16]

\* parse_scaling_list_data: coded, or that of a matrix before.
ScalingLists(lists) ==
    [size \in 0 .. 3 |->
        LET list[m \in Matrices(size)] ==
                LET x == lists[size][m]
                    ref == m - (x.delta * Step(size))
                    start == IF size > 1 THEN x.dc + 8 ELSE 8
                IN  IF x.coded
                    THEN [last |-> U8(start + x.coef), dc |-> IF size > 1 THEN U8(start) ELSE 16]
                    ELSE IF x.delta = 0 \/ ref < 0 THEN DefaultList(size, m) ELSE list[ref]
        IN  list]

ListsRefused(lists) ==
    \E size \in 0 .. 3 : \E m \in Matrices(size) :
        LET x == lists[size][m]
        IN  IF x.coded THEN \/ size > 1 /\ x.dc \notin -7 .. 247
                            \/ x.coef \notin -128 .. 127
            ELSE x.delta > m \div Step(size)

DefaultLists == [size \in 0 .. 3 |-> [m \in Matrices(size) |-> DefaultList(size, m)]]

-----------------------------------------------------------------------------
(* Video and sequence parameter sets.                                      *)

\* parse_vps.
VpsRefused == coded.vps_reserved # 65535

SpsElements ==
    {"sps_id", "chroma_format_idc", "log2_max_poc_lsb_minus4", "log2_min_cb_minus3",
     "log2_diff_cb", "log2_min_tb_minus2", "log2_diff_tb", "hierarchy_inter",
     "hierarchy_intra", "num_short_term_sets"}
        \cup When("pcm", {"log2_min_pcm_minus3", "log2_diff_pcm"})

\* skip_short_term_ref_pic_set, long-term pictures, skip_vui_remainder with
\* skip_hrd_parameters: cpb_cnt_minus1 is there unless the delay is low.
PassedOverRefused ==
    \/ coded.num_short_term_sets % 256 > 0 /\ coded.num_set_pics > 4096
    \/ On("long_term_pics") /\ coded.num_long_term_sps > 32
    \/ /\ On("vui") /\ On("vui_timing") /\ On("vui_hrd")
       /\ On("fixed_pic_rate") \/ ~On("low_delay")
       /\ coded.cpb_cnt_minus1 > 31

\* parse_sps_impl up to the conformance window.
SpsPicture(s) ==
    [vps |-> s.sps_vps_id, subLayers |-> s.sps_max_sub_layers_minus1, id |-> s.sps_id,
     chroma |-> s.chroma_format_idc,
     planes |-> s.chroma_format_idc = 3 /\ On("separate_colour_planes"),
     w |-> s.width, h |-> s.height, cropped |-> On("conformance_window"),
     crop |-> [side \in {"left", "right", "top", "bottom"} |->
                  Or0("conformance_window", s[side])],
     luma |-> s.bit_depth_luma_minus8, chromaDepth |-> s.bit_depth_chroma_minus8]

\* Block sizes, and what the accessors of Sps derive.
SpsBlocks(s) ==
    LET cb == U8(s.log2_min_cb_minus3 + 3)
        tb == U8(s.log2_min_tb_minus2 + 2)
    IN  [cb |-> cb, ctb |-> U8(cb + s.log2_diff_cb), minTb |-> tb,
         maxTb |-> U8(tb + s.log2_diff_tb), hierarchy |-> s.hierarchy_intra,
         minus |-> <<s.log2_min_cb_minus3, s.log2_diff_cb, s.log2_min_tb_minus2,
                     s.log2_diff_tb>>,
         inter |-> s.hierarchy_inter]

\* Scaling lists, tools, the reference pictures that a slice header may name.
SpsTools(s) ==
    [lists |-> IF ~On("scaling_lists") THEN << >>
               ELSE IF On("sps_list_data") THEN <<ScalingLists(s.sps_lists)>>
               ELSE <<DefaultLists>>,
     sao |-> On("sao"), pcm |-> On("pcm"), sets |-> s.num_short_term_sets,
     strong |-> On("strong_smoothing")]

\* The colour description: unspecified without one.
SpsColour(s) ==
    LET described == On("vui") /\ On("video_signal") /\ On("colour_description")
    IN  [fullRange |-> On("vui") /\ On("video_signal") /\ On("full_range"),
         primaries |-> IF described THEN s.primaries ELSE 2,
         transfer |-> IF described THEN s.transfer ELSE 2,
         matrix |-> IF described THEN s.matrix ELSE 2]

\* The range extension names the first tool that is not supported.
RextTool == On("sps_extension") /\ On("sps_range_extension") /\ On("rext_tool")

ParseSps(bounded) ==
    LET s == Narrowed(coded, SpsElements, {})
        lists == On("scaling_lists") /\ On("sps_list_data")
    IN  IF \/ coded.bit_depth_luma_minus8 > 8 \/ coded.bit_depth_chroma_minus8 > 8
           \/ PassedOverRefused
           \/ bounded /\ \/ Overflows(coded, SpsElements, {})
                         \/ s.log2_max_poc_lsb_minus4 > 12
                         \/ lists /\ ListsRefused(coded.sps_lists)
                         \/ On("sps_extension")
        THEN Refused
        ELSE [is |-> "sps", picture |-> SpsPicture(s), blocks |-> SpsBlocks(s),
              tools |-> SpsTools(s), colour |-> SpsColour(s), unsupported |-> RextTool]

-----------------------------------------------------------------------------
(* Picture parameter sets.                                                 *)

PpsElements ==
    {"pps_id", "pps_sps_id", "num_ref_idx_l0_minus1", "num_ref_idx_l1_minus1",
     "log2_parallel_merge_minus2"}
        \cup When("cu_qp_delta", {"cu_qp_delta_depth"})
        \cup When("pps_extension", When("pps_range_extension",
                                        {"sao_scale_luma", "sao_scale_chroma"}))

PpsDeblocks == On("deblocking_control") /\ ~On("pps_deblocking_disabled")

PpsSigned ==
    {"init_qp_minus26", "pps_cb_offset", "pps_cr_offset"}
        \cup IF PpsDeblocks THEN {"pps_beta", "pps_tc"} ELSE {}

\* More than one tile, which the counts say as far as they fit in 16 bits.
TilesRefused(bounded) ==
    On("tiles") /\ IF bounded THEN coded.tile_columns_minus1 # 0 \/ coded.tile_rows_minus1 # 0
                   ELSE \/ U16(coded.tile_columns_minus1) > 0
                        \/ U16(coded.tile_rows_minus1) > 0

\* The range extension, of which offset scales are supported: a scaled offset
\* has to fit in an i8.
PpsExtensionRefused(p) ==
    /\ On("pps_extension") /\ On("pps_range_extension")
    /\ \/ On("transform_skip") /\ coded.log2_transform_skip_minus2 > 0
       \/ On("cross_component")
       \/ On("chroma_offset_list")
       \/ p.sao_scale_luma > 2 \/ p.sao_scale_chroma > 2

PpsQp(p) ==
    [init |-> p.init_qp_minus26, delta |-> On("cu_qp_delta"),
     depth |-> Or0("cu_qp_delta", p.cu_qp_delta_depth),
     cb |-> p.pps_cb_offset, cr |-> p.pps_cr_offset, bySlice |-> On("slice_chroma_offsets")]

PpsFilter(p) ==
    [override |-> On("deblocking_control") /\ On("deblocking_override_enabled"),
     disabled |-> On("deblocking_control") /\ On("pps_deblocking_disabled"),
     beta |-> IF PpsDeblocks THEN p.pps_beta ELSE 0,
     tc |-> IF PpsDeblocks THEN p.pps_tc ELSE 0,
     scale |-> IF On("pps_extension") /\ On("pps_range_extension")
               THEN <<p.sao_scale_luma, p.sao_scale_chroma>> ELSE <<0, 0>>]

ParsePps(bounded) ==
    LET p == Narrowed(coded, PpsElements, PpsSigned)
    IN  IF \/ TilesRefused(bounded)
           \/ PpsExtensionRefused(p)
           \/ bounded /\ \/ Overflows(coded, PpsElements, PpsSigned)
                         \/ On("pps_list_data") /\ ListsRefused(coded.pps_lists)
                         \/ On("pps_extension")
        THEN Refused
        ELSE [is |-> "pps", id |-> p.pps_id, sps |-> p.pps_sps_id,
              dependent |-> On("dependent_slices"), qp |-> PpsQp(p),
              filter |-> PpsFilter(p),
              lists |-> IF On("pps_list_data") THEN <<ScalingLists(p.pps_lists)>> ELSE << >>,
              hiding |-> On("sign_hiding"), skip |-> On("transform_skip"),
              bypass |-> On("transquant_bypass"), tiles |-> On("tiles"), wpp |-> On("wpp")]

-----------------------------------------------------------------------------
(* Slice headers.                                                          *)

SliceUnsigned == {"slice_pps_id", "slice_type"}

SliceDeblocks(pps) == pps.filter.override /\ On("slice_override")

SliceSigned(pps) ==
    {"slice_qp_delta"}
        \cup (IF pps.qp.bySlice THEN {"slice_cb_offset", "slice_cr_offset"} ELSE {})
        \cup (IF SliceDeblocks(pps) /\ ~On("slice_deblocking_disabled")
              THEN {"slice_beta", "slice_tc"} ELSE {})

CtbRows(sps) ==
    LET size == 2 ^ (sps.blocks.ctb % 32)
    IN  (sps.picture.h + size - 1) \div size

\* skip_ref_pic_set: a set of the slice's own may not be predicted.
ReferencesRefused(sps) ==
    ~On("idr") /\ ~On("set_of_sps") /\ sps.tools.sets # 0 /\ On("set_predicted")

EntryPointsRefused(sps, pps) ==
    /\ pps.tiles \/ pps.wpp
    /\ \/ coded.num_entry_points >= CtbRows(sps)
       \/ coded.num_entry_points > 0 /\ coded.entry_offset_len_minus1 > 31

SliceFilter(h, pps) ==
    IF ~SliceDeblocks(pps)
    THEN [disabled |-> pps.filter.disabled, beta |-> pps.filter.beta, tc |-> pps.filter.tc]
    ELSE IF On("slice_deblocking_disabled") THEN [disabled |-> TRUE, beta |-> 0, tc |-> 0]
    ELSE [disabled |-> FALSE, beta |-> h.slice_beta, tc |-> h.slice_tc]

\* SliceHeader::parse_impl: one independent intra slice for the picture.
ParseSlice(sps, pps, bounded) ==
    LET h == Narrowed(coded, SliceUnsigned, SliceSigned(pps))
        chromaSao == sps.picture.chroma # 0 /\ ~sps.picture.planes
    IN  IF \/ bounded /\ Overflows(coded, SliceUnsigned, SliceSigned(pps))
           \/ h.slice_pps_id # pps.id
           \/ ~On("first_slice")
           \/ ReferencesRefused(sps)
           \/ h.slice_type # 2
           \/ EntryPointsRefused(sps, pps)
        THEN Refused
        ELSE [is |-> "slice",
              saoLuma |-> sps.tools.sao /\ On("slice_sao_luma"),
              saoChroma |-> sps.tools.sao /\ chromaSao /\ On("slice_sao_chroma"),
              shown |-> On("output_flag_present") => On("pic_output"),
              qp |-> 26 + pps.qp.init + h.slice_qp_delta,
              cb |-> IF pps.qp.bySlice THEN h.slice_cb_offset ELSE 0,
              cr |-> IF pps.qp.bySlice THEN h.slice_cr_offset ELSE 0,
              filter |-> SliceFilter(h, pps),
              entries |-> IF pps.tiles \/ pps.wpp THEN coded.num_entry_points ELSE 0]

-----------------------------------------------------------------------------
(* The two decoders.                                                       *)

\* What a decoder of coding trees is given, the same for both.
Picture(sps, pps, slice, bits, chroma, crop) ==
    [is |-> "picture", w |-> sps.picture.w, h |-> sps.picture.h, bits |-> bits,
     chroma |-> chroma, crop |-> crop, colour |-> sps.colour,
     ctb |-> sps.blocks.ctb, cb |-> sps.blocks.cb, minTb |-> sps.blocks.minTb,
     maxTb |-> sps.blocks.maxTb, hierarchy |-> sps.blocks.hierarchy,
     strong |-> sps.tools.strong, hiding |-> pps.hiding, skip |-> pps.skip,
     bypass |-> pps.bypass, wpp |-> pps.wpp,
     lists |-> IF sps.tools.lists = << >> \/ pps.lists = << >> THEN sps.tools.lists
               ELSE pps.lists,
     qp |-> slice.qp, delta |-> pps.qp.delta, qgDepth |-> pps.qp.depth,
     offsets |-> <<pps.qp.cb, pps.qp.cr, slice.cb, slice.cr>>,
     sao |-> <<slice.saoLuma, slice.saoChroma>>, scale |-> pps.filter.scale,
     filter |-> slice.filter, entries |-> slice.entries]

\* The sizes of pictures that both decoders refuse.
OutOfRange(w, h) == w = 0 \/ h = 0 \/ w > 16384 \/ h > 16384

Sides(crop, x, y) ==
    <<crop.left * x, crop.right * x, crop.top * y, crop.bottom * y>>

\* decode_nal_units up to the first coding tree, of one base layer slice.
DecodeNalUnits ==
    LET sps == ParseSps(FALSE)
        pps == ParsePps(FALSE)
    IN  IF VpsRefused \/ sps = Refused \/ pps = Refused THEN Refused
        ELSE
        LET g == sps.picture
            crop == Sides(g.crop, IF g.chroma \in {0, 3} THEN 1 ELSE 2,
                          IF g.chroma \in {0, 2, 3} THEN 1 ELSE 2)
            slice == ParseSlice(sps, pps, FALSE)
        IN  IF \/ sps.tools.pcm
               \/ g.chroma # 0 /\ g.luma # g.chromaDepth
               \/ sps.unsupported
               \/ OutOfRange(g.w, g.h)
               \/ g.cropped /\ (crop[1] + crop[2] >= g.w \/ crop[3] + crop[4] >= g.h)
               \/ slice = Refused
            THEN Refused
            ELSE Picture(sps, pps, slice, 8 + g.luma, g.chroma, crop)

\* validate_sps.
SpsRefused(sps) ==
    LET g == sps.picture
        b == sps.blocks
        unit == 2 ^ b.cb
    IN  \/ OutOfRange(g.w, g.h)
        \/ g.id > 15 \/ g.subLayers # 0
        \/ g.chroma # 1 \/ g.luma # 0 \/ g.chromaDepth # 0 \/ g.planes
        \/ sps.tools.pcm \/ sps.unsupported
        \/ \E k \in 1 .. 4 : b.minus[k] > 3
        \/ b.ctb \notin 4 .. 6
        \/ b.maxTb > 5 \/ b.maxTb > b.ctb \/ b.minTb > b.cb
        \/ b.hierarchy > b.ctb - b.minTb \/ b.inter > b.ctb - b.minTb
        \/ g.w % unit # 0 \/ g.h % unit # 0
        \/ 2 * (g.crop.left + g.crop.right) >= g.w
        \/ 2 * (g.crop.top + g.crop.bottom) >= g.h

\* The checks of the picture parameter set in Prepared::new.
PpsRefused(pps, sps) ==
    \/ pps.sps # sps.picture.id \/ pps.id > 63 \/ pps.dependent
    \/ pps.qp.depth > sps.blocks.minus[2]
    \/ pps.qp.init \notin -26 .. 25
    \/ pps.qp.cb \notin -12 .. 12 \/ pps.qp.cr \notin -12 .. 12
    \/ pps.filter.beta \notin -6 .. 6 \/ pps.filter.tc \notin -6 .. 6

\* What Prepared::new reads of the slice header itself, as it is coded.
SliceStartRefused(pps) ==
    ~On("first_slice") \/ coded.slice_pps_id # pps.id \/ coded.slice_type # 2

SliceRefused(slice) ==
    \/ slice.qp \notin 0 .. 51
    \/ slice.cb \notin -12 .. 12 \/ slice.cr \notin -12 .. 12
    \/ slice.filter.beta \notin -6 .. 6 \/ slice.filter.tc \notin -6 .. 6
    \/ ~slice.shown
    \/ ~On("slice_data")

\* Prepared::new, its frame as decode and incremental::decode make it.
PreparedNew ==
    LET sps == ParseSps(TRUE)
        pps == ParsePps(TRUE)
    IN  IF \/ VpsRefused \/ coded.max_layers_minus1 # 0 \/ coded.vps_max_sub_layers_minus1 # 0
           \/ sps = Refused
        THEN Refused
        ELSE IF SpsRefused(sps) \/ sps.picture.vps # coded.vps_id \/ pps = Refused THEN Refused
        ELSE IF PpsRefused(pps, sps) \/ SliceStartRefused(pps) THEN Refused
        ELSE LET slice == ParseSlice(sps, pps, TRUE)
             IN  IF slice = Refused THEN Refused
                 ELSE IF SliceRefused(slice) THEN Refused
                 ELSE Picture(sps, pps, slice, 8, 1, Sides(sps.picture.crop, 2, 2))

-----------------------------------------------------------------------------
Prepare ==
    /\ prepared = Pending
    /\ prepared' = PreparedNew
    /\ UNCHANGED <<coded, decoded>>

Decode ==
    /\ decoded = Pending
    /\ decoded' = DecodeNalUnits
    /\ UNCHANGED <<coded, prepared>>

HeaderNext == Prepare \/ Decode

\* Syntax elements are numbers that are as large as the code of ue(v) and se(v)
\* allows, which is more than their fields hold.
UnsignedElements ==
    {"sps_id", "chroma_format_idc", "log2_max_poc_lsb_minus4", "log2_min_cb_minus3",
     "log2_diff_cb", "log2_min_tb_minus2", "log2_diff_tb", "hierarchy_inter",
     "hierarchy_intra", "num_short_term_sets", "log2_min_pcm_minus3", "log2_diff_pcm",
     "width", "height", "left", "right", "top", "bottom", "pps_id", "pps_sps_id",
     "num_ref_idx_l0_minus1", "num_ref_idx_l1_minus1", "log2_parallel_merge_minus2",
     "cu_qp_delta_depth", "sao_scale_luma", "sao_scale_chroma", "slice_pps_id",
     "slice_type"}

SignedElements ==
    {"init_qp_minus26", "pps_cb_offset", "pps_cr_offset", "pps_beta", "pps_tc",
     "slice_qp_delta", "slice_cb_offset", "slice_cr_offset", "slice_beta", "slice_tc"}

HeaderInit ==
    /\ coded = [n \in DOMAIN coded |-> coded[n]]
    /\ \A n \in UnsignedElements : coded[n] \in Nat
    /\ \A n \in SignedElements : coded[n] \in Int
    /\ prepared = Pending
    /\ decoded = Pending

HeaderSpec == HeaderInit /\ [][HeaderNext]_headerVars

-----------------------------------------------------------------------------
\* A picture that the coding trees can be decoded of: sizes, depths and QPs
\* that shifts, maps of whole coding blocks and tables have room for.
Decodable(p) ==
    /\ p.ctb \in p.cb .. 6 /\ p.cb \in 3 .. 6 /\ p.minTb \in 2 .. p.maxTb
    /\ p.maxTb <= 5 /\ p.minTb + p.hierarchy <= p.ctb /\ p.cb + p.qgDepth <= p.ctb
    /\ p.w % (2 ^ p.cb) = 0 /\ p.h % (2 ^ p.cb) = 0
    /\ p.crop[1] + p.crop[2] < p.w /\ p.crop[3] + p.crop[4] < p.h
    /\ p.qp \in 0 .. 51 /\ p.scale = <<0, 0>>

\* A picture that the bounded decoder accepts is one that its coding trees can
\* be decoded of, in the sizes and with the QP that are coded, none of them
\* narrowed; and the eager decoder, whose checks are others and elsewhere,
\* accepts it with the same parameters.
BoundedHeaderAgrees ==
    prepared.is = "picture" =>
        /\ Decodable(prepared)
        /\ prepared.ctb = coded.log2_min_cb_minus3 + 3 + coded.log2_diff_cb
        /\ prepared.maxTb = coded.log2_min_tb_minus2 + 2 + coded.log2_diff_tb
        /\ prepared.hierarchy = coded.hierarchy_intra
        /\ prepared.qp = 26 + coded.init_qp_minus26 + coded.slice_qp_delta
        /\ decoded # Pending => decoded = prepared

=============================================================================
