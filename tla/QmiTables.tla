------------------------------- MODULE QmiTables -------------------------------
(***************************************************************************)
(* The messages of the five QMI services that this code talks: what kind   *)
(* each is, its id, the length its sender declares, and the table by which *)
(* it is encoded and decoded (the _ei arrays of                            *)
(* cnss_utils/wlan_firmware_service_v01.c, device_management_service_v01.c, *)
(* cnss_plat_ipc_service_v01.c, cnss2/coexistence_service_v01.c and        *)
(* cnss2/ip_multimedia_subsystem_private_service_v01.c; ids and lengths from *)
(* their headers).                                                         *)
(*                                                                         *)
(* A table is a sequence of elements.  An optional field has a flag before *)
(* it, an array of variable length the width of its length; both repeat the *)
(* TLV type of the field.  The fields of a structure have no TLV of their  *)
(* own (type 0).  Where in the C structure a field lives is left out.      *)
(***************************************************************************)
EXTENDS Naturals, SequencesExt

-----------------------------------------------------------------------------
(***************************************************************************)
(* The elements (struct qmi_elem_info)                                     *)
(***************************************************************************)
Flag(t)       == [kind |-> "flag", tlv |-> t]                  \* QMI_OPT_FLAG
DataLen(t, w) == [kind |-> "len", tlv |-> t, width |-> w]      \* QMI_DATA_LEN
Text(t, n)    == [kind |-> "string", tlv |-> t, n |-> n]       \* QMI_STRING
\* n items of at least least and at most most bytes each.
Items(t, array, n, least, most) ==
    [kind |-> "items", tlv |-> t, array |-> array, n |-> n, least |-> least, most |-> most]

\* How long the fields of a structure can be.  Inside a structure a string has
\* its length before it.
LongestField(e) ==
    CASE e.kind = "len"    -> e.width
      [] e.kind = "string" -> (IF e.n <= 255 THEN 1 ELSE 2) + e.n - 1
      [] e.kind = "items"  -> e.n * e.most
ShortestField(e) ==
    CASE e.kind = "len"    -> e.width
      [] e.kind = "string" -> IF e.n <= 255 THEN 1 ELSE 2
      [] e.kind = "items"  -> IF e.array = "var" THEN 0 ELSE e.n * e.least
Longest(ei)  == FoldLeft(LAMBDA sum, e: sum + LongestField(e), 0, ei)
Shortest(ei) == FoldLeft(LAMBDA sum, e: sum + ShortestField(e), 0, ei)

Scalar(t, size) == <<Items(t, "none", 1, size, size)>>
U1(t)   == Scalar(t, 1)
U2(t)   == Scalar(t, 2)
U4(t)   == Scalar(t, 4)
U8(t)   == Scalar(t, 8)
Enum(t) == Scalar(t, 4)
Str(t, n)         == <<Text(t, n)>>
Array(t, n, size) == <<Items(t, "static", n, size, size)>>
VarArray(t, w, n, size) == <<DataLen(t, w), Items(t, "var", n, size, size)>>
Struct(t, ei)     == <<Items(t, "none", 1, Shortest(ei), Longest(ei))>>
Structs(t, n, ei) == <<Items(t, "static", n, Shortest(ei), Longest(ei))>>
VarStructs(t, w, n, ei) ==
    <<DataLen(t, w), Items(t, "var", n, Shortest(ei), Longest(ei))>>
Opt(ei) == <<Flag(ei[1].tlv)>> \o ei
\* Optional fields of one kind under the types first to last.
Opts(F(_), first, last) ==
    FlattenSeq([i \in 1..(last - first + 1) |-> Opt(F(first + i - 1))])
\* struct qmi_response_type_v01: result and error.
Resp == <<Items(2, "none", 1, 4, 4)>>

Message(service, type, id, len, ei) ==
    [service |-> service, type |-> type, id |-> id, len |-> len, ei |-> ei]
Wlfw(type, id, len, ei)    == Message("wlfw", type, id, len, ei)
Dms(type, id, len, ei)     == Message("dms", type, id, len, ei)
PlatIpc(type, id, len, ei) == Message("plat_ipc", type, id, len, ei)
Coex(type, id, len, ei)    == Message("coex", type, id, len, ei)
Ims(type, id, len, ei)     == Message("ims", type, id, len, ei)

-----------------------------------------------------------------------------
(***************************************************************************)
(* The longest arrays and strings                                          *)
(***************************************************************************)
WLFW_MAX_NUM_CAL == 5
WLFW_MAX_PLATFORM_NAME_LEN == 64
WLFW_MAX_HOST_DDR_RANGE_SIZE == 3
WLFW_MAX_NUM_SHADOW_REG == 24
WLFW_MAX_BUILD_ID_LEN == 128
WLFW_MAX_DEV_MEM_NUM == 4
WLFW_MAX_NUM_MLO_LINKS_PER_CHIP == 2
WLFW_MAX_NUM_SVC == 24
WLFW_MAX_NUM_MEMORY_REGIONS == 2
WLFW_MAC_ADDR_SIZE == 6
WLFW_MAX_NUM_GPIO_INFO == 20
WLFW_MAX_NUM_MEM_CFG == 2
WLFW_PMU_PARAMS_MAX == 16
WLFW_MAX_NUM_MEM_SEG == 52
WLFW_MAX_WFC_CALL_STATUS_DATA_SIZE == 256
WLFW_MAX_DATA_SIZE == 6144
WLFW_FUNCTION_NAME_LEN == 128
WLFW_MAX_NUM_CE == 12
WLFW_MAX_TIMESTAMP_LEN == 32
WLFW_MAX_M3_SEGMENTS_SIZE == 10
WLFW_PMU_PIN_NAME_MAX_LEN == 32
WLFW_MAX_STR_LEN == 16
WLFW_MAX_NUM_SHADOW_REG_V3 == 60
WLFW_MAX_NUM_SHADOW_REG_V2 == 36
WLFW_MAX_ATHDIAG_DATA_SIZE == 6144
WLFW_MAX_NUM_GPIO == 32
WLFW_MAX_NUM_MLO_CHIPS == 3
DMS_MAC_ADDR_MAX == 8
CNSS_PLAT_IPC_QMI_MAX_FILE_NAME_LEN == 32
CNSS_PLAT_IPC_QMI_MAX_DATA_SIZE == 61440
IMS_PRIVATE_SERVICE_MAX_MT_INVITE_HEADERS == 15
IMS_PRIVATE_SERVICE_HEADER_STR_LEN == 1024
IMS_PRIVATE_SERVICE_MAX_ICCID_LEN == 21

-----------------------------------------------------------------------------
(***************************************************************************)
(* The WLAN firmware (wlan_firmware_service_v01)                           *)
(***************************************************************************)
wlfw_ce_tgt_pipe_cfg_s_v01 == U4(0) \o Enum(0) \o U4(0) \o U4(0) \o U4(0)
wlfw_ce_svc_pipe_cfg_s_v01 == U4(0) \o Enum(0) \o U4(0)
wlfw_shadow_reg_cfg_s_v01 == U2(0) \o U2(0)
wlfw_shadow_reg_v2_cfg_s_v01 == U4(0)
wlfw_rri_over_ddr_cfg_s_v01 == U4(0) \o U4(0)
wlfw_msi_cfg_s_v01 == U2(0) \o U2(0)
wlfw_memory_region_info_s_v01 == U8(0) \o U4(0) \o U1(0)
wlfw_mem_cfg_s_v01 == U8(0) \o U4(0) \o U1(0)
wlfw_mem_seg_s_v01 == U4(0) \o Enum(0)
    \o VarStructs(0, 1, WLFW_MAX_NUM_MEM_CFG, wlfw_mem_cfg_s_v01)
wlfw_mem_seg_resp_s_v01 == U8(0) \o U4(0) \o Enum(0) \o U1(0)
wlfw_rf_chip_info_s_v01 == U4(0) \o U4(0)
wlfw_rf_board_info_s_v01 == U4(0)
wlfw_soc_info_s_v01 == U4(0)
wlfw_fw_version_info_s_v01 == U4(0) \o Str(0, WLFW_MAX_TIMESTAMP_LEN + 1)
wlfw_host_ddr_range_s_v01 == U8(0) \o U8(0)
wlfw_m3_segment_info_s_v01 == Enum(0) \o U8(0) \o U8(0) \o Str(0, WLFW_MAX_STR_LEN + 1)
wlfw_dev_mem_info_s_v01 == U8(0) \o U8(0)
wlfw_host_mlo_chip_info_s_v01 == U1(0) \o U1(0)
    \o Array(0, WLFW_MAX_NUM_MLO_LINKS_PER_CHIP, 1)
    \o Array(0, WLFW_MAX_NUM_MLO_LINKS_PER_CHIP, 1)
wlfw_pmu_param_v01 == Array(0, WLFW_PMU_PIN_NAME_MAX_LEN, 1) \o U4(0) \o U4(0) \o U4(0)
    \o U4(0)
wlfw_pmu_cfg_v01 == VarStructs(0, 1, WLFW_PMU_PARAMS_MAX, wlfw_pmu_param_v01)
wlfw_shadow_reg_v3_cfg_s_v01 == U4(0)

wlfw_ind_register_req_msg_v01 ==
    Wlfw("request", 32, 86,
        Opts(U1, 16, 20) \o Opt(U4(21)) \o Opts(U1, 22, 24) \o Opt(U4(25))
        \o Opts(U1, 26, 35))
wlfw_ind_register_resp_msg_v01 == Wlfw("response", 32, 18, Resp \o Opt(U8(16)))
wlfw_fw_ready_ind_msg_v01 == Wlfw("indication", 33, 0, <<>>)
wlfw_msa_ready_ind_msg_v01 == Wlfw("indication", 43, 12, Opt(U4(16)) \o Opt(U2(17)))
wlfw_pin_connect_result_ind_msg_v01 == Wlfw("indication", 44, 21, Opts(U4, 16, 18))

wlfw_wlan_mode_req_msg_v01 ==
    Wlfw("request", 34, 22,
        Enum(1) \o Opt(U1(16)) \o Opt(U1(17)) \o Opt(U4(18)))
wlfw_wlan_mode_resp_msg_v01 == Wlfw("response", 34, 7, Resp)

wlfw_wlan_cfg_req_msg_v01 ==
    Wlfw("request", 35, 1110,
        Opt(Str(16, WLFW_MAX_STR_LEN + 1))
        \o Opt(VarStructs(17, 1, WLFW_MAX_NUM_CE, wlfw_ce_tgt_pipe_cfg_s_v01))
        \o Opt(VarStructs(18, 1, WLFW_MAX_NUM_SVC, wlfw_ce_svc_pipe_cfg_s_v01))
        \o Opt(VarStructs(19, 1, WLFW_MAX_NUM_SHADOW_REG, wlfw_shadow_reg_cfg_s_v01))
        \o Opt(VarStructs(20, 1, WLFW_MAX_NUM_SHADOW_REG_V2, wlfw_shadow_reg_v2_cfg_s_v01))
        \o Opt(Struct(21, wlfw_rri_over_ddr_cfg_s_v01))
        \o Opt(VarStructs(22, 1, WLFW_MAX_NUM_CE, wlfw_msi_cfg_s_v01))
        \o Opt(VarStructs(23, 1, WLFW_MAX_NUM_SHADOW_REG_V3, wlfw_shadow_reg_v3_cfg_s_v01)))
wlfw_wlan_cfg_resp_msg_v01 == Wlfw("response", 35, 7, Resp)

wlfw_cap_req_msg_v01 == Wlfw("request", 36, 0, <<>>)
wlfw_cap_resp_msg_v01 ==
    Wlfw("response", 36, 1142,
        Resp \o Opt(Struct(16, wlfw_rf_chip_info_s_v01))
        \o Opt(Struct(17, wlfw_rf_board_info_s_v01)) \o Opt(Struct(18, wlfw_soc_info_s_v01))
        \o Opt(Struct(19, wlfw_fw_version_info_s_v01))
        \o Opt(Str(20, WLFW_MAX_BUILD_ID_LEN + 1)) \o Opt(U1(21)) \o Opts(U4, 22, 25)
        \o Opt(U8(26)) \o Opt(Enum(27))
        \o Opt(Structs(28, WLFW_MAX_DEV_MEM_NUM, wlfw_dev_mem_info_s_v01))
        \o Opt(Str(29, WLFW_MAX_STR_LEN + 1)) \o Opt(U4(30)) \o Opt(U2(31)) \o Opt(Enum(32))
        \o Opt(U1(33)) \o Opt(Struct(34, wlfw_pmu_cfg_v01)) \o Opt(U1(35)) \o Opt(U1(36)))

\* Mutant: the length of the data has one byte.
wlfw_bdf_download_req_msg_v01_ByteLength ==
    Wlfw("request", 37, 6182,
        U1(1) \o Opt(Enum(16)) \o Opt(U4(17)) \o Opt(U4(18))
        \o Opt(VarArray(19, 1, WLFW_MAX_DATA_SIZE, 1)) \o Opt(U1(20)) \o Opt(U1(21)))

wlfw_bdf_download_req_msg_v01 ==
    Wlfw("request", 37, 6182,
        U1(1) \o Opt(Enum(16)) \o Opt(U4(17)) \o Opt(U4(18))
        \o Opt(VarArray(19, 2, WLFW_MAX_DATA_SIZE, 1)) \o Opt(U1(20)) \o Opt(U1(21)))
wlfw_bdf_download_resp_msg_v01 == Wlfw("response", 37, 18, Resp \o Opt(U8(16)))

wlfw_cal_report_req_msg_v01 ==
    Wlfw("request", 38, 43,
        VarArray(1, 1, WLFW_MAX_NUM_CAL, 4) \o Opt(U1(16)) \o Opt(U1(17)) \o Opt(U8(18)))
wlfw_cal_report_resp_msg_v01 == Wlfw("response", 38, 7, Resp)
\* Mutant: the table has a field more than when the length was computed.
wlfw_initiate_cal_download_ind_msg_v01_NewField ==
    Wlfw("indication", 40, 21,
        Enum(1) \o Opt(U4(16)) \o Opt(U4(17)) \o Opt(U4(18)))

wlfw_initiate_cal_download_ind_msg_v01 ==
    Wlfw("indication", 40, 21,
        Enum(1) \o Opt(U4(16)) \o Opt(U4(17)))

wlfw_cal_download_req_msg_v01 ==
    Wlfw("request", 39, 6185,
        U1(1) \o Opt(Enum(16)) \o Opt(U4(17)) \o Opt(U4(18))
        \o Opt(VarArray(19, 2, WLFW_MAX_DATA_SIZE, 1)) \o Opt(U1(20)) \o Opt(U4(21)))
wlfw_cal_download_resp_msg_v01 == Wlfw("response", 39, 7, Resp)
wlfw_initiate_cal_update_ind_msg_v01 ==
    Wlfw("indication", 42, 21,
        Enum(1) \o U4(2) \o Opt(U4(16)))

wlfw_cal_update_req_msg_v01 == Wlfw("request", 41, 14, Enum(1) \o U4(2))
wlfw_cal_update_resp_msg_v01 ==
    Wlfw("response", 41, 6188,
        Resp \o Opt(Enum(16)) \o Opt(U4(17)) \o Opt(U4(18))
        \o Opt(VarArray(19, 2, WLFW_MAX_DATA_SIZE, 1)) \o Opt(U1(20)) \o Opt(U4(21)))

wlfw_msa_info_req_msg_v01 == Wlfw("request", 45, 18, U8(1) \o U4(2))
wlfw_msa_info_resp_msg_v01 ==
    Wlfw("response", 45, 37,
        Resp
        \o VarStructs(3, 1, WLFW_MAX_NUM_MEMORY_REGIONS, wlfw_memory_region_info_s_v01))

wlfw_msa_ready_req_msg_v01 == Wlfw("request", 46, 0, <<>>)
wlfw_msa_ready_resp_msg_v01 == Wlfw("response", 46, 7, Resp)

wlfw_ini_req_msg_v01 == Wlfw("request", 47, 4, Opt(U1(16)))
wlfw_ini_resp_msg_v01 == Wlfw("response", 47, 7, Resp)

wlfw_athdiag_read_req_msg_v01 == Wlfw("request", 48, 21, U4(1) \o U4(2) \o U4(3))
wlfw_athdiag_read_resp_msg_v01 ==
    Wlfw("response", 48, 6156,
        Resp \o Opt(VarArray(16, 2, WLFW_MAX_ATHDIAG_DATA_SIZE, 1)))

wlfw_athdiag_write_req_msg_v01 ==
    Wlfw("request", 49, 6163,
        U4(1) \o U4(2) \o VarArray(3, 2, WLFW_MAX_ATHDIAG_DATA_SIZE, 1))
wlfw_athdiag_write_resp_msg_v01 == Wlfw("response", 49, 7, Resp)

wlfw_vbatt_req_msg_v01 == Wlfw("request", 50, 11, U8(1))
wlfw_vbatt_resp_msg_v01 == Wlfw("response", 50, 7, Resp)

wlfw_mac_addr_req_msg_v01 == Wlfw("request", 51, 9, Opt(Array(16, WLFW_MAC_ADDR_SIZE, 1)))
wlfw_mac_addr_resp_msg_v01 == Wlfw("response", 51, 7, Resp)

wlfw_host_cap_req_msg_v01 ==
    Wlfw("request", 52, 491,
        Opt(U4(16)) \o Opt(U4(17)) \o Opt(VarArray(18, 1, WLFW_MAX_NUM_GPIO, 4))
        \o Opts(U1, 19, 26) \o Opt(U4(27)) \o Opt(U1(28)) \o Opt(U2(29))
        \o Opt(Str(30, WLFW_MAX_PLATFORM_NAME_LEN + 1))
        \o Opt(Structs(31, WLFW_MAX_HOST_DDR_RANGE_SIZE, wlfw_host_ddr_range_s_v01))
        \o Opt(Enum(32)) \o Opt(U1(33)) \o Opt(U2(34)) \o Opt(U1(35)) \o Opt(U2(36))
        \o Opt(U1(37))
        \o Opt(Structs(38, WLFW_MAX_NUM_MLO_CHIPS, wlfw_host_mlo_chip_info_s_v01))
        \o Opt(U8(39)) \o Opt(U2(40)) \o Opt(U1(41)) \o Opts(U4, 42, 44)
        \o Opt(VarArray(45, 1, WLFW_MAX_NUM_GPIO_INFO, 4)) \o Opt(U1(46)))
wlfw_host_cap_resp_msg_v01 == Wlfw("response", 52, 7, Resp)

wlfw_request_mem_ind_msg_v01 ==
    Wlfw("indication", 53, 1824,
        VarStructs(1, 1, WLFW_MAX_NUM_MEM_SEG, wlfw_mem_seg_s_v01))

wlfw_respond_mem_req_msg_v01 ==
    Wlfw("request", 54, 888,
        VarStructs(1, 1, WLFW_MAX_NUM_MEM_SEG, wlfw_mem_seg_resp_s_v01))
wlfw_respond_mem_resp_msg_v01 == Wlfw("response", 54, 7, Resp)
wlfw_fw_mem_ready_ind_msg_v01 == Wlfw("indication", 55, 0, <<>>)
wlfw_fw_init_done_ind_msg_v01 == Wlfw("indication", 56, 12, Opt(U4(16)) \o Opt(U2(17)))
wlfw_rejuvenate_ind_msg_v01 ==
    Wlfw("indication", 57, 144,
        Opt(U1(16)) \o Opt(U1(17)) \o Opt(U2(18))
        \o Opt(Str(19, WLFW_FUNCTION_NAME_LEN + 1)))

wlfw_rejuvenate_ack_req_msg_v01 == Wlfw("request", 58, 0, <<>>)
wlfw_rejuvenate_ack_resp_msg_v01 == Wlfw("response", 58, 7, Resp)

wlfw_dynamic_feature_mask_req_msg_v01 == Wlfw("request", 59, 11, Opt(U8(16)))
wlfw_dynamic_feature_mask_resp_msg_v01 ==
    Wlfw("response", 59, 29,
        Resp \o Opt(U8(16)) \o Opt(U8(17)))

wlfw_m3_info_req_msg_v01 == Wlfw("request", 60, 18, U8(1) \o U4(2))
wlfw_m3_info_resp_msg_v01 == Wlfw("response", 60, 7, Resp)
wlfw_xo_cal_ind_msg_v01 == Wlfw("indication", 61, 4, U1(1))
wlfw_cal_done_ind_msg_v01 == Wlfw("indication", 62, 11, Opt(U8(16)))

wlfw_qdss_trace_req_mem_ind_msg_v01 ==
    Wlfw("indication", 63, 1824,
        VarStructs(1, 1, WLFW_MAX_NUM_MEM_SEG, wlfw_mem_seg_s_v01))

wlfw_qdss_trace_mem_info_req_msg_v01 ==
    Wlfw("request", 64, 892,
        VarStructs(1, 1, WLFW_MAX_NUM_MEM_SEG, wlfw_mem_seg_resp_s_v01) \o Opt(U1(16)))
wlfw_qdss_trace_mem_info_resp_msg_v01 == Wlfw("response", 64, 7, Resp)
wlfw_qdss_trace_save_ind_msg_v01 ==
    Wlfw("indication", 65, 921,
        U4(1) \o U4(2)
        \o Opt(VarStructs(16, 1, WLFW_MAX_NUM_MEM_SEG, wlfw_mem_seg_resp_s_v01))
        \o Opt(Str(17, WLFW_MAX_STR_LEN + 1)))

wlfw_qdss_trace_data_req_msg_v01 == Wlfw("request", 66, 7, U4(1))
wlfw_qdss_trace_data_resp_msg_v01 ==
    Wlfw("response", 66, 6174,
        Resp \o Opt(U4(16)) \o Opt(U4(17)) \o Opt(VarArray(18, 2, WLFW_MAX_DATA_SIZE, 1))
        \o Opt(U1(19)))

wlfw_qdss_trace_config_download_req_msg_v01 ==
    Wlfw("request", 68, 6167,
        Opt(U4(16)) \o Opt(U4(17)) \o Opt(VarArray(18, 2, WLFW_MAX_DATA_SIZE, 1))
        \o Opt(U1(19)))
wlfw_qdss_trace_config_download_resp_msg_v01 == Wlfw("response", 68, 7, Resp)

wlfw_qdss_trace_mode_req_msg_v01 ==
    Wlfw("request", 69, 25,
        Opt(Enum(16)) \o Opt(U8(17)) \o Opt(Enum(18)))
wlfw_qdss_trace_mode_resp_msg_v01 == Wlfw("response", 69, 7, Resp)
wlfw_qdss_trace_free_ind_msg_v01 ==
    Wlfw("indication", 70, 888,
        Opt(VarStructs(16, 1, WLFW_MAX_NUM_MEM_SEG, wlfw_mem_seg_resp_s_v01)))

wlfw_shutdown_req_msg_v01 == Wlfw("request", 67, 4, Opt(U1(16)))
wlfw_shutdown_resp_msg_v01 == Wlfw("response", 67, 7, Resp)

wlfw_antenna_switch_req_msg_v01 == Wlfw("request", 71, 0, <<>>)
wlfw_antenna_switch_resp_msg_v01 == Wlfw("response", 71, 18, Resp \o Opt(U8(16)))

wlfw_antenna_grant_req_msg_v01 == Wlfw("request", 72, 11, Opt(U8(16)))
wlfw_antenna_grant_resp_msg_v01 == Wlfw("response", 72, 7, Resp)

wlfw_wfc_call_status_req_msg_v01 ==
    Wlfw("request", 73, 296,
        VarArray(1, 2, WLFW_MAX_WFC_CALL_STATUS_DATA_SIZE, 1) \o Opts(U1, 16, 18)
        \o Opt(U8(19)) \o Opt(U2(20)) \o Opt(Enum(21)))
wlfw_wfc_call_status_resp_msg_v01 == Wlfw("response", 73, 7, Resp)

wlfw_get_info_req_msg_v01 ==
    Wlfw("request", 74, 6153,
        U1(1) \o VarArray(2, 2, WLFW_MAX_DATA_SIZE, 1))
wlfw_get_info_resp_msg_v01 == Wlfw("response", 74, 7, Resp)
wlfw_respond_get_info_ind_msg_v01 ==
    Wlfw("indication", 75, 6164,
        VarArray(1, 2, WLFW_MAX_DATA_SIZE, 1) \o Opt(U1(16)) \o Opt(U1(17)) \o Opt(U4(18)))

wlfw_device_info_req_msg_v01 == Wlfw("request", 76, 0, <<>>)
wlfw_device_info_resp_msg_v01 ==
    Wlfw("response", 76, 43,
        Resp \o Opt(U8(16)) \o Opt(U4(17)) \o Opt(U8(18)) \o Opt(U4(19)))

wlfw_m3_dump_upload_req_ind_msg_v01 == Wlfw("indication", 77, 29, U4(1) \o U8(2) \o U8(3))

wlfw_m3_dump_upload_done_req_msg_v01 == Wlfw("request", 78, 14, U4(1) \o U4(2))
wlfw_m3_dump_upload_done_resp_msg_v01 == Wlfw("response", 78, 7, Resp)

wlfw_soc_wake_req_msg_v01 == Wlfw("request", 79, 7, Opt(Enum(16)))
wlfw_soc_wake_resp_msg_v01 == Wlfw("response", 79, 7, Resp)

wlfw_power_save_req_msg_v01 == Wlfw("request", 80, 7, Opt(Enum(16)))
wlfw_power_save_resp_msg_v01 == Wlfw("response", 80, 7, Resp)
wlfw_wfc_call_twt_config_ind_msg_v01 ==
    Wlfw("indication", 81, 35,
        Opt(U8(16)) \o Opts(U2, 17, 20) \o Opt(U1(21)))
wlfw_qdss_mem_ready_ind_msg_v01 == Wlfw("indication", 82, 0, <<>>)

wlfw_pcie_gen_switch_req_msg_v01 == Wlfw("request", 83, 7, Enum(1))
wlfw_pcie_gen_switch_resp_msg_v01 == Wlfw("response", 83, 7, Resp)

wlfw_m3_dump_upload_segments_req_ind_msg_v01 ==
    Wlfw("indication", 84, 387,
        U4(1) \o U4(2) \o Structs(3, WLFW_MAX_M3_SEGMENTS_SIZE, wlfw_m3_segment_info_s_v01))

wlfw_subsys_restart_level_req_msg_v01 == Wlfw("request", 85, 4, Opt(U1(16)))
wlfw_subsys_restart_level_resp_msg_v01 == Wlfw("response", 85, 7, Resp)

wlfw_ini_file_download_req_msg_v01 ==
    Wlfw("request", 86, 6174,
        Opt(Enum(16)) \o Opt(U4(17)) \o Opt(U4(18))
        \o Opt(VarArray(19, 2, WLFW_MAX_DATA_SIZE, 1)) \o Opt(U1(20)))
wlfw_ini_file_download_resp_msg_v01 == Wlfw("response", 86, 7, Resp)

-----------------------------------------------------------------------------
(***************************************************************************)
(* The device management service of the modem                              *)
(***************************************************************************)
dms_get_mac_address_req_msg_v01 == Dms("request", 92, 7, Enum(1))
dms_get_mac_address_resp_msg_v01 ==
    Dms("response", 92, 19,
        Resp \o Opt(VarArray(16, 1, DMS_MAC_ADDR_MAX, 1)))

-----------------------------------------------------------------------------
(***************************************************************************)
(* The daemon in user space (cnss_plat_ipc_service_v01)                    *)
(***************************************************************************)
cnss_plat_ipc_qmi_init_setup_req_msg_v01 ==
    PlatIpc("request", 1, 15,
        U1(1) \o U1(2) \o U4(3))
cnss_plat_ipc_qmi_init_setup_resp_msg_v01 == PlatIpc("response", 1, 18, Resp \o U8(3))
cnss_plat_ipc_qmi_file_download_ind_msg_v01 ==
    PlatIpc("indication", 2, 42,
        Str(1, CNSS_PLAT_IPC_QMI_MAX_FILE_NAME_LEN + 1) \o U4(2))

cnss_plat_ipc_qmi_file_download_req_msg_v01 ==
    PlatIpc("request", 3, 61470,
        U4(1) \o U4(2) \o U1(3) \o U4(4)
        \o VarArray(5, 2, CNSS_PLAT_IPC_QMI_MAX_DATA_SIZE, 1))
cnss_plat_ipc_qmi_file_download_resp_msg_v01 ==
    PlatIpc("response", 3, 21,
        Resp \o U4(3) \o U4(4))
cnss_plat_ipc_qmi_file_upload_ind_msg_v01 ==
    PlatIpc("indication", 4, 49,
        Str(1, CNSS_PLAT_IPC_QMI_MAX_FILE_NAME_LEN + 1) \o U4(2) \o U4(3))

cnss_plat_ipc_qmi_file_upload_req_msg_v01 == PlatIpc("request", 5, 14, U4(1) \o U4(2))
cnss_plat_ipc_qmi_file_upload_resp_msg_v01 ==
    PlatIpc("response", 5, 61470,
        Resp \o U4(3) \o U1(4) \o U4(5)
        \o VarArray(6, 2, CNSS_PLAT_IPC_QMI_MAX_DATA_SIZE, 1))

cnss_plat_ipc_qmi_reg_client_req_msg_v01 == PlatIpc("request", 6, 7, Opt(Enum(16)))
cnss_plat_ipc_qmi_reg_client_resp_msg_v01 == PlatIpc("response", 6, 7, Resp)

-----------------------------------------------------------------------------
(***************************************************************************)
(* The coexistence service of the modem                                    *)
(***************************************************************************)
coex_antenna_switch_to_wlan_req_msg_v01 == Coex("request", 66, 11, U8(1))
coex_antenna_switch_to_wlan_resp_msg_v01 == Coex("response", 66, 18, Resp \o Opt(U8(16)))

coex_antenna_switch_to_mdm_req_msg_v01 == Coex("request", 66, 11, U8(1))
coex_antenna_switch_to_mdm_resp_msg_v01 == Coex("response", 66, 7, Resp)

-----------------------------------------------------------------------------
(***************************************************************************)
(* The IMS service of the modem                                            *)
(***************************************************************************)
ims_private_service_header_value_v01 == Str(0, IMS_PRIVATE_SERVICE_HEADER_STR_LEN + 1)
    \o Str(0, IMS_PRIVATE_SERVICE_HEADER_STR_LEN + 1)

ims_private_service_subscribe_for_indications_req_msg_v01 ==
    Ims("request", 62, 8,
        Opt(U1(16)) \o Opt(U1(17)))
ims_private_service_subscribe_for_indications_rsp_msg_v01 == Ims("response", 62, 7, Resp)
ims_private_service_mt_invite_ind_msg_v01 ==
    Ims("indication", 63, 30815,
        Enum(1) \o Opt(Str(16, IMS_PRIVATE_SERVICE_MAX_ICCID_LEN + 1))
        \o Opt(VarStructs(17, 1, IMS_PRIVATE_SERVICE_MAX_MT_INVITE_HEADERS, ims_private_service_header_value_v01)))
ims_private_service_wfc_call_status_ind_msg_v01 ==
    Ims("indication", 64, 35,
        U1(1) \o Opt(U1(16)) \o Opt(U1(17)) \o Opt(U8(18)) \o Opt(U2(19)) \o Opt(Enum(20)))

ims_private_service_wfc_call_twt_config_req_msg_v01 ==
    Ims("request", 65, 35,
        Opt(U8(16)) \o Opts(U2, 17, 20) \o Opt(U1(21)))
ims_private_service_wfc_call_twt_config_rsp_msg_v01 == Ims("response", 65, 7, Resp)

-----------------------------------------------------------------------------
WlfwMessages ==
    <<wlfw_ind_register_req_msg_v01, wlfw_ind_register_resp_msg_v01, wlfw_fw_ready_ind_msg_v01,
      wlfw_msa_ready_ind_msg_v01, wlfw_pin_connect_result_ind_msg_v01, wlfw_wlan_mode_req_msg_v01,
      wlfw_wlan_mode_resp_msg_v01, wlfw_wlan_cfg_req_msg_v01, wlfw_wlan_cfg_resp_msg_v01,
      wlfw_cap_req_msg_v01, wlfw_cap_resp_msg_v01, wlfw_bdf_download_req_msg_v01,
      wlfw_bdf_download_resp_msg_v01, wlfw_cal_report_req_msg_v01, wlfw_cal_report_resp_msg_v01,
      wlfw_initiate_cal_download_ind_msg_v01, wlfw_cal_download_req_msg_v01,
      wlfw_cal_download_resp_msg_v01, wlfw_initiate_cal_update_ind_msg_v01,
      wlfw_cal_update_req_msg_v01, wlfw_cal_update_resp_msg_v01, wlfw_msa_info_req_msg_v01,
      wlfw_msa_info_resp_msg_v01, wlfw_msa_ready_req_msg_v01, wlfw_msa_ready_resp_msg_v01,
      wlfw_ini_req_msg_v01, wlfw_ini_resp_msg_v01, wlfw_athdiag_read_req_msg_v01,
      wlfw_athdiag_read_resp_msg_v01, wlfw_athdiag_write_req_msg_v01,
      wlfw_athdiag_write_resp_msg_v01, wlfw_vbatt_req_msg_v01, wlfw_vbatt_resp_msg_v01,
      wlfw_mac_addr_req_msg_v01, wlfw_mac_addr_resp_msg_v01, wlfw_host_cap_req_msg_v01,
      wlfw_host_cap_resp_msg_v01, wlfw_request_mem_ind_msg_v01, wlfw_respond_mem_req_msg_v01,
      wlfw_respond_mem_resp_msg_v01, wlfw_fw_mem_ready_ind_msg_v01, wlfw_fw_init_done_ind_msg_v01,
      wlfw_rejuvenate_ind_msg_v01, wlfw_rejuvenate_ack_req_msg_v01,
      wlfw_rejuvenate_ack_resp_msg_v01, wlfw_dynamic_feature_mask_req_msg_v01,
      wlfw_dynamic_feature_mask_resp_msg_v01, wlfw_m3_info_req_msg_v01, wlfw_m3_info_resp_msg_v01,
      wlfw_xo_cal_ind_msg_v01, wlfw_cal_done_ind_msg_v01, wlfw_qdss_trace_req_mem_ind_msg_v01,
      wlfw_qdss_trace_mem_info_req_msg_v01, wlfw_qdss_trace_mem_info_resp_msg_v01,
      wlfw_qdss_trace_save_ind_msg_v01, wlfw_qdss_trace_data_req_msg_v01,
      wlfw_qdss_trace_data_resp_msg_v01, wlfw_qdss_trace_config_download_req_msg_v01,
      wlfw_qdss_trace_config_download_resp_msg_v01, wlfw_qdss_trace_mode_req_msg_v01,
      wlfw_qdss_trace_mode_resp_msg_v01, wlfw_qdss_trace_free_ind_msg_v01,
      wlfw_shutdown_req_msg_v01, wlfw_shutdown_resp_msg_v01, wlfw_antenna_switch_req_msg_v01,
      wlfw_antenna_switch_resp_msg_v01, wlfw_antenna_grant_req_msg_v01,
      wlfw_antenna_grant_resp_msg_v01, wlfw_wfc_call_status_req_msg_v01,
      wlfw_wfc_call_status_resp_msg_v01, wlfw_get_info_req_msg_v01, wlfw_get_info_resp_msg_v01,
      wlfw_respond_get_info_ind_msg_v01, wlfw_device_info_req_msg_v01,
      wlfw_device_info_resp_msg_v01, wlfw_m3_dump_upload_req_ind_msg_v01,
      wlfw_m3_dump_upload_done_req_msg_v01, wlfw_m3_dump_upload_done_resp_msg_v01,
      wlfw_soc_wake_req_msg_v01, wlfw_soc_wake_resp_msg_v01, wlfw_power_save_req_msg_v01,
      wlfw_power_save_resp_msg_v01, wlfw_wfc_call_twt_config_ind_msg_v01,
      wlfw_qdss_mem_ready_ind_msg_v01, wlfw_pcie_gen_switch_req_msg_v01,
      wlfw_pcie_gen_switch_resp_msg_v01, wlfw_m3_dump_upload_segments_req_ind_msg_v01,
      wlfw_subsys_restart_level_req_msg_v01, wlfw_subsys_restart_level_resp_msg_v01,
      wlfw_ini_file_download_req_msg_v01, wlfw_ini_file_download_resp_msg_v01>>

DmsMessages ==
    <<dms_get_mac_address_req_msg_v01, dms_get_mac_address_resp_msg_v01>>

PlatIpcMessages ==
    <<cnss_plat_ipc_qmi_init_setup_req_msg_v01, cnss_plat_ipc_qmi_init_setup_resp_msg_v01,
      cnss_plat_ipc_qmi_file_download_ind_msg_v01, cnss_plat_ipc_qmi_file_download_req_msg_v01,
      cnss_plat_ipc_qmi_file_download_resp_msg_v01, cnss_plat_ipc_qmi_file_upload_ind_msg_v01,
      cnss_plat_ipc_qmi_file_upload_req_msg_v01, cnss_plat_ipc_qmi_file_upload_resp_msg_v01,
      cnss_plat_ipc_qmi_reg_client_req_msg_v01, cnss_plat_ipc_qmi_reg_client_resp_msg_v01>>

CoexMessages ==
    <<coex_antenna_switch_to_wlan_req_msg_v01, coex_antenna_switch_to_wlan_resp_msg_v01,
      coex_antenna_switch_to_mdm_req_msg_v01, coex_antenna_switch_to_mdm_resp_msg_v01>>

ImsMessages ==
    <<ims_private_service_subscribe_for_indications_req_msg_v01,
      ims_private_service_subscribe_for_indications_rsp_msg_v01,
      ims_private_service_mt_invite_ind_msg_v01, ims_private_service_wfc_call_status_ind_msg_v01,
      ims_private_service_wfc_call_twt_config_req_msg_v01,
      ims_private_service_wfc_call_twt_config_rsp_msg_v01>>

Messages == WlfwMessages \o DmsMessages \o PlatIpcMessages \o CoexMessages \o ImsMessages
================================================================================
