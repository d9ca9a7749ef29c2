---------------------------- MODULE PeerObjects ----------------------------
(***************************************************************************)
(* The records of the analytics, firmware, certificate and load services.  *)
(* The Members give each class its members by kind, and under "raw" the    *)
(* ones that have no initializer; the Codecs give what to_json writes and  *)
(* from_json reads, in that order, by the member it is read into.          *)
(***************************************************************************)
EXTENDS ObjectTables

AnalyticsReportMembers ==
  [ Report |->
      [number |-> {"snapShot"}],
    VenueInfo |->
      [text |-> {"id", "name", "description"}, flag |-> {"monitorSubVenues"},
       number |-> {"retention", "interval"}],
    BoardInfo |->
      [embedded |-> {"info"}, objects |-> {"venueList"}],
    DeviceInfo |->
      [text |-> {"boardId", "type", "serialNumber", "deviceType",
                 "lastFirmware", "connectionIp", "locale"},
       flag |-> {"connected"},
       number |-> {"lastContact", "lastPing", "lastState",
                   "lastFirmwareUpdate", "lastConnection", "lastDisconnection",
                   "pings", "states", "associations_2g", "associations_5g",
                   "associations_6g", "health", "lastHealth", "uptime",
                   "memory"}],
    DeviceInfoList |->
      [objects |-> {"devices"}],
    TIDstat_entry |->
      [number |-> {"rx_msdu", "tx_msdu", "tx_msdu_failed", "tx_msdu_retries"}],
    UE_rate |->
      [flag |-> {"ht", "sgi"},
       number |-> {"bitrate", "mcs", "nss", "chwidth"}],
    AveragePoint |->
      [number |-> {"min", "max", "avg"}],
    UETimePoint |->
      [text |-> {"station"},
       number |-> {"rssi", "tx_bytes", "rx_bytes", "tx_duration", "rx_packets",
                   "tx_packets", "tx_retries", "tx_failed", "connected",
                   "inactive", "tx_bytes_bw", "rx_bytes_bw", "tx_packets_bw",
                   "rx_packets_bw", "tx_failed_pct", "tx_retries_pct",
                   "tx_duration_pct", "tx_bytes_delta", "rx_bytes_delta",
                   "tx_duration_delta", "rx_packets_delta", "tx_packets_delta",
                   "tx_retries_delta", "tx_failed_delta"},
       object |-> {"tx_rate", "rx_rate"}, objects |-> {"tidstats"}] ]

AnalyticsSSIDTimePointMembers ==
  [ SSIDTimePoint |->
      [text |-> {"bssid", "mode", "ssid"}, number |-> {"band", "channel"},
       object |-> {"tx_bytes_bw", "rx_bytes_bw", "tx_packets_bw",
                   "rx_packets_bw", "tx_failed_pct", "tx_retries_pct",
                   "tx_duration_pct"}, objects |-> {"associations"}],
    APTimePoint |->
      [number |-> {"collisions", "multicast", "rx_bytes", "rx_dropped",
                   "rx_errors", "rx_packets", "tx_bytes", "tx_dropped",
                   "tx_errors", "tx_packets", "tx_bytes_bw", "rx_bytes_bw",
                   "rx_dropped_pct", "tx_dropped_pct", "rx_packets_bw",
                   "tx_packets_bw", "rx_errors_pct", "tx_errors_pct",
                   "tx_bytes_delta", "rx_bytes_delta", "rx_dropped_delta",
                   "tx_dropped_delta", "rx_packets_delta", "tx_packets_delta",
                   "rx_errors_delta", "tx_errors_delta"}],
    RadioTimePoint |->
      [number |-> {"band", "channel_width", "active_ms", "busy_ms",
                   "receive_ms", "transmit_ms", "tx_power", "channel",
                   "temperature", "noise", "active_pct", "busy_pct",
                   "receive_pct", "transmit_pct"}],
    DeviceTimePoint |->
      [text |-> {"id", "boardId", "serialNumber"}, number |-> {"timestamp"},
       object |-> {"ap_data", "device_info"},
       objects |-> {"ssid_data", "radio_data"}],
    DeviceTimePointAnalysis |->
      [number |-> {"timestamp"},
       object |-> {"noise", "temperature", "active_pct", "busy_pct",
                   "receive_pct", "transmit_pct", "tx_power", "tx_bytes_bw",
                   "rx_bytes_bw", "rx_dropped_pct", "tx_dropped_pct",
                   "rx_packets_bw", "tx_packets_bw", "rx_errors_pct",
                   "tx_errors_pct"}, raw |-> {"timestamp"}],
    DeviceTimePointList |->
      [objects |-> {"points", "stats"}],
    BandwidthAnalysisEntry |->
      [number |-> {"timestamp"}],
    BandwidthAnalysis |->
      NoMembers,
    AverageValueSigned |->
      [number |-> {"peak", "avg", "low"}],
    AverageValueUnsigned |->
      [number |-> {"peak", "avg", "low"}],
    RadioAnalysis |->
      [number |-> {"timestamp"},
       object |-> {"noise", "temperature", "active_ms", "busy_ms",
                   "transmit_ms", "receive_ms"}],
    DeviceTimePointStats |->
      [number |-> {"firstPoint", "lastPoint", "count"}] ]

AnalyticsWifiClientRateMembers ==
  [ WifiClientRate |->
      [flag |-> {"vht"}, number |-> {"bitrate", "chwidth", "mcs", "nss"}],
    WifiClientHistory |->
      [text |-> {"station_id", "bssid", "ssid", "ipv4", "ipv6", "mode",
                 "venue_id"}, flag |-> {"rx_vht", "tx_vht"},
       number |-> {"timestamp", "rssi", "rx_bitrate", "rx_chwidth", "rx_mcs",
                   "rx_nss", "tx_bitrate", "tx_chwidth", "tx_mcs", "tx_nss",
                   "rx_bytes", "tx_bytes", "rx_duration", "tx_duration",
                   "rx_packets", "tx_packets", "channel_width", "noise",
                   "tx_power", "channel", "active_ms", "busy_ms", "receive_ms",
                   "ack_signal", "ack_signal_avg", "connected", "inactive",
                   "tx_retries"}] ]

AnalyticsReportCodecs ==
  [ Report |->
      WriteOnly(<<>>),
    VenueInfo |->
      Both(<<"id", "name", "description", "retention", "interval",
             "monitorSubVenues">>),
    BoardInfo |->
      Both(<<"info", "venueList">>),
    DeviceInfo |->
      Both(<<"boardId", "type", "serialNumber", "deviceType", "lastContact",
             "lastPing", "lastState", "lastFirmware", "lastFirmwareUpdate",
             "lastConnection", "lastDisconnection", "pings", "states",
             "connected", "connectionIp", "associations_2g", "associations_5g",
             "associations_6g", "health", "lastHealth", "locale", "uptime",
             "memory">>),
    DeviceInfoList |->
      Both(<<"devices">>),
    UE_rate |->
      Both(<<"bitrate", "mcs", "nss", "ht", "sgi", "chwidth">>) ]

AnalyticsUETimePointCodecs ==
  [ UETimePoint |->
      Both(<<"station", "rssi", "tx_bytes", "rx_bytes", "tx_duration",
             "rx_packets", "tx_packets", "tx_retries", "tx_failed",
             "connected", "inactive", "tx_rate", "rx_rate", "tx_bytes_bw",
             "rx_bytes_bw", "tx_packets_bw", "rx_packets_bw", "tx_failed_pct",
             "tx_retries_pct", "tx_duration_pct", "tx_bytes_delta",
             "rx_bytes_delta", "tx_packets_delta", "rx_packets_delta",
             "tx_failed_delta", "tx_retries_delta", "tx_duration_delta">>),
    APTimePoint |->
      Both(<<"collisions", "multicast", "rx_bytes", "rx_dropped", "rx_errors",
             "rx_packets", "tx_bytes", "tx_packets", "tx_dropped", "tx_errors",
             "tx_bytes_bw", "rx_bytes_bw", "rx_dropped_pct", "tx_dropped_pct",
             "rx_packets_bw", "tx_packets_bw", "rx_errors_pct",
             "tx_errors_pct", "tx_bytes_delta", "rx_bytes_delta",
             "rx_dropped_delta", "tx_dropped_delta", "rx_packets_delta",
             "tx_packets_delta", "rx_errors_delta", "tx_errors_delta">>) ]

AnalyticsTIDstat_entryCodecs ==
  [ TIDstat_entry |->
      Both(<<"rx_msdu", "tx_msdu", "tx_msdu_failed", "tx_msdu_retries">>),
    RadioTimePoint |->
      Both(<<"band", "channel_width", "active_ms", "busy_ms", "receive_ms",
             "transmit_ms", "tx_power", "channel", "temperature", "noise",
             "active_pct", "busy_pct", "receive_pct", "transmit_pct">>),
    AveragePoint |->
      Both(<<"min", "max", "avg">>),
    SSIDTimePoint |->
      Both(<<"bssid", "mode", "ssid", "band", "channel", "associations",
             "tx_bytes_bw", "rx_bytes_bw", "tx_packets_bw", "rx_packets_bw",
             "tx_failed_pct", "tx_retries_pct", "tx_duration_pct">>),
    DeviceTimePoint |->
      Both(<<"id", "boardId", "timestamp", "ap_data", "ssid_data",
             "radio_data", "device_info", "serialNumber">>) ]

AnalyticsDeviceTimePointAnalysisCodecs ==
  [ DeviceTimePointAnalysis |->
      Both(<<"noise", "temperature", "active_pct", "busy_pct", "receive_pct",
             "transmit_pct", "tx_power", "tx_bytes_bw", "rx_bytes_bw",
             "rx_dropped_pct", "tx_dropped_pct", "rx_packets_bw",
             "tx_packets_bw", "rx_errors_pct", "tx_errors_pct">>),
    DeviceTimePointList |->
      Both(<<"points", "stats">>),
    DeviceTimePointStats |->
      Both(<<"firstPoint", "lastPoint", "count">>),
    WifiClientRate |->
      Both(<<"bitrate", "chwidth", "mcs", "nss", "vht">>) ]

AnalyticsWifiClientHistoryCodecs ==
  [ WifiClientHistory |->
      Both(<<"timestamp", "station_id", "bssid", "ssid", "rssi", "rx_bitrate",
             "rx_chwidth", "rx_mcs", "rx_nss", "rx_vht", "tx_bitrate",
             "tx_chwidth", "tx_mcs", "tx_nss", "tx_vht", "rx_bytes",
             "tx_bytes", "rx_duration", "tx_duration", "rx_packets",
             "tx_packets", "ipv4", "ipv6", "channel_width", "noise",
             "tx_power", "channel", "active_ms", "busy_ms", "receive_ms",
             "mode", "ack_signal", "ack_signal_avg", "connected", "inactive",
             "tx_retries", "venue_id">>) ]

FMSFirmwareMembers ==
  [ Firmware |->
      [text |-> {"id", "release", "deviceType", "description", "revision",
                 "uri", "image", "firmwareHash", "owner", "location",
                 "uploader", "digest"}, flag |-> {"latest"},
       number |-> {"imageDate", "size", "downloadCount", "created"},
       objects |-> {"notes"}],
    FirmwareList |->
      [objects |-> {"firmwares"}],
    DeviceType |->
      [text |-> {"id", "deviceType", "manufacturer", "model", "policy"},
       number |-> {"lastUpdate", "created"}, objects |-> {"notes"}],
    DeviceTypeList |->
      [objects |-> {"deviceTypes"}],
    RevisionHistoryEntry |->
      [text |-> {"id", "serialNumber", "fromRelease", "toRelease",
                 "commandUUID", "revisionId"}, number |-> {"upgraded"},
       raw |-> {"upgraded"}],
    RevisionHistoryEntryList |->
      [objects |-> {"history"}],
    FirmwareAgeDetails |->
      [text |-> {"latestId", "image", "revision", "uri"}, flag |-> {"latest"},
       number |-> {"imageDate", "age"}, raw |-> {"imageDate"}],
    DeviceConnectionInformation |->
      [text |-> {"serialNumber", "revision", "deviceType", "endPoint",
                 "status"}, number |-> {"lastUpdate"}, raw |-> {"lastUpdate"}],
    DeviceReport |->
      [number |-> {"snapshot", "numberOfDevices"},
       counts |-> {"OUI_", "Revisions_", "DeviceTypes_", "Status_",
                   "EndPoints_", "UsingLatest_", "UnknownFirmwares_",
                   "totalSecondsOld_"}],
    DeviceInformation |->
      [text |-> {"serialNumber", "currentFirmware", "latestFirmware",
                 "latestFirmwareURI"}, flag |-> {"latestFirmwareAvailable"},
       number |-> {"currentFirmwareDate", "latestFirmwareDate"},
       object |-> {"history"}, raw |-> {"latestFirmwareAvailable"}],
    DeviceCurrentInfo |->
      [text |-> {"serialNumber", "revision"}, number |-> {"upgraded"}] ]

FMSDeviceCurrentInfoListMembers ==
  [ DeviceCurrentInfoList |->
      [objects |-> {"devices"}] ]

FMSFirmwareCodecs ==
  [ Firmware |->
      [Both(<<"id", "release", "deviceType", "description", "revision", "uri",
              "image", "imageDate", "size", "downloadCount", "firmwareHash",
              "owner", "location", "uploader", "digest", "latest", "notes",
              "created">>)
         EXCEPT !.lenient = TRUE],
    FirmwareList |->
      Both(<<"firmwares">>),
    DeviceType |->
      Both(<<"id", "deviceType", "manufacturer", "model", "policy", "notes",
             "lastUpdate", "created">>),
    DeviceTypeList |->
      Both(<<"deviceTypes">>),
    RevisionHistoryEntry |->
      Both(<<"id", "serialNumber", "fromRelease", "toRelease", "commandUUID",
             "revisionId", "upgraded">>),
    RevisionHistoryEntryList |->
      Both(<<"history">>) ]

FMSFirmwareAgeDetailsCodecs ==
  [ FirmwareAgeDetails |->
      Both(<<"latestId", "image", "imageDate", "revision", "uri", "age",
             "latest">>),
    DeviceConnectionInformation |->
      Both(<<"serialNumber", "revision", "deviceType", "endPoint",
             "lastUpdate", "status">>),
    DeviceReport |->
      Codec(<<"OUI_", "Revisions_", "DeviceTypes_", "Status_", "EndPoints_",
              "UsingLatest_", "UnknownFirmwares_", "snapshot",
              "numberOfDevices", "totalSecondsOld_">>,
            <<>>),
    DeviceInformation |->
      Both(<<"serialNumber", "history", "currentFirmware",
             "currentFirmwareDate", "latestFirmware", "latestFirmwareDate",
             "latestFirmwareAvailable", "latestFirmwareURI">>),
    DeviceCurrentInfo |->
      Both(<<"serialNumber", "revision", "upgraded">>),
    DeviceCurrentInfoList |->
      Both(<<"devices">>) ]

CertCertificateEntryMembers ==
  [ CertificateEntry |->
      [text |-> {"id", "entity", "creator", "type", "status", "certificate",
                 "key", "devid", "cas", "manufacturer", "model", "redirector",
                 "commonName", "certificateId", "batch"},
       number |-> {"created", "modified", "revoked", "revokeCount", "synched",
                   "expiryDate"}],
    EntityEntry |->
      [text |-> {"id", "creator", "name", "description", "defaultRedirector",
                 "apiKey", "serverEnrollmentProfile",
                 "clientEnrollmentProfile", "organization"},
       flag |-> {"suspended", "deleted"}, number |-> {"created", "modified"},
       objects |-> {"notes"}],
    BatchEntry |->
      [text |-> {"id", "entity", "creator", "name", "description",
                 "manufacturer", "model", "redirector"},
       number |-> {"submitted", "started", "completed", "modified"},
       texts |-> {"commonNames", "jobHistory"}, objects |-> {"notes"}],
    JobEntry |->
      [text |-> {"id", "entity", "creator", "batch", "command", "status",
                 "requesterUsername"},
       number |-> {"submitted", "started", "completed"},
       texts |-> {"commonNames", "completedNames", "errorNames"},
       pairs |-> {"parameters"}],
    DashBoardYearlyStats |->
      [number |-> {"year"}, counts |-> {"activeCerts", "revokedCerts"}],
    Dashboard |->
      [number |-> {"snapshot", "numberOfIssuedCerts", "numberOfRevokedCerts"},
       counts |-> {"activeCertsPerOrganization", "revokedCertsPerOrganization",
                   "numberOfRedirectors", "deviceTypes",
                   "monthlyNumberOfCerts"},
       objects |-> {"monthlyNumberOfCertsPerOrgPerYear"}] ]

CertCertificateEntryCodecs ==
  [ CertificateEntry |->
      Both(<<"id", "entity", "creator", "type", "status", "certificate", "key",
             "devid", "cas", "manufacturer", "model", "redirector",
             "commonName", "certificateId", "batch", "created", "modified",
             "revoked", "revokeCount", "synched", "expiryDate">>),
    EntityEntry |->
      Both(<<"id", "creator", "name", "description", "defaultRedirector",
             "apiKey", "serverEnrollmentProfile", "clientEnrollmentProfile",
             "organization", "created", "modified", "suspended", "deleted",
             "notes">>),
    BatchEntry |->
      Both(<<"id", "entity", "creator", "name", "description", "manufacturer",
             "model", "redirector", "commonNames", "jobHistory", "notes",
             "submitted", "started", "completed", "modified">>) ]

CertJobEntryCodecs ==
  [ JobEntry |->
      Both(<<"id", "entity", "creator", "batch", "commonNames",
             "completedNames", "errorNames", "status", "command", "parameters",
             "submitted", "started", "completed", "requesterUsername">>),
    DashBoardYearlyStats |->
      WriteOnly(<<"year", "activeCerts", "revokedCerts">>),
    Dashboard |->
      WriteOnly(<<"snapshot", "numberOfIssuedCerts", "numberOfRevokedCerts",
                  "activeCertsPerOrganization", "revokedCertsPerOrganization",
                  "numberOfRedirectors", "deviceTypes", "monthlyNumberOfCerts",
                  "monthlyNumberOfCertsPerOrgPerYear">>) ]

OWLSSimulationDetailsMembers ==
  [ SimulationDetails |->
      [text |-> {"id", "name", "gateway", "certificate", "key", "macPrefix",
                 "deviceType"},
       number |-> {"devices", "healthCheckInterval", "stateInterval",
                   "minAssociations", "maxAssociations", "minClients",
                   "maxClients", "simulationLength", "threads",
                   "clientInterval", "keepAlive", "reconnectInterval",
                   "concurrentDevices"}],
    SimulationDetailsList |->
      [objects |-> {"list"}],
    SimulationStatus |->
      [text |-> {"id", "simulationId", "state", "owner"},
       number |-> {"tx", "rx", "msgsTx", "msgsRx", "liveDevices",
                   "timeToFullDevices", "startTime", "endTime", "errorDevices",
                   "expectedDevices"},
       raw |-> {"tx", "rx", "msgsTx", "msgsRx", "liveDevices",
                "timeToFullDevices", "startTime", "endTime", "errorDevices",
                "expectedDevices"}],
    Dashboard |->
      [number |-> {"O"}, raw |-> {"O"}] ]

OWLSSimulationDetailsCodecs ==
  [ SimulationDetails |->
      Both(<<"id", "name", "gateway", "certificate", "key", "macPrefix",
             "deviceType", "devices", "healthCheckInterval", "stateInterval",
             "minAssociations", "maxAssociations", "minClients", "maxClients",
             "simulationLength", "threads", "clientInterval", "keepAlive",
             "reconnectInterval", "concurrentDevices">>),
    SimulationDetailsList |->
      Both(<<"list">>),
    SimulationStatus |->
      WriteOnly(<<"id", "simulationId", "state", "tx", "rx", "msgsTx",
                  "msgsRx", "liveDevices", "timeToFullDevices", "startTime",
                  "endTime", "errorDevices", "owner", "expectedDevices">>),
    Dashboard |->
      Both(<<>>) ]

AnalyticsMembers ==
  AnalyticsReportMembers @@ AnalyticsSSIDTimePointMembers
  @@ AnalyticsWifiClientRateMembers

AnalyticsCodecs ==
  AnalyticsReportCodecs @@ AnalyticsUETimePointCodecs
  @@ AnalyticsTIDstat_entryCodecs
  @@ AnalyticsDeviceTimePointAnalysisCodecs
  @@ AnalyticsWifiClientHistoryCodecs

FMSMembers ==
  FMSFirmwareMembers
  @@ FMSDeviceCurrentInfoListMembers

FMSCodecs ==
  FMSFirmwareCodecs
  @@ FMSFirmwareAgeDetailsCodecs

CertMembers ==
  CertCertificateEntryMembers

CertCodecs ==
  CertCertificateEntryCodecs
  @@ CertJobEntryCodecs

OWLSMembers ==
  OWLSSimulationDetailsMembers

OWLSCodecs ==
  OWLSSimulationDetailsCodecs
=============================================================================
